---- MODULE Spec2Model ----
(***************************************************************************)
(* Verification model of nano-agentx:                                      *)
(*   - the Codex client and the codex_merge plan/revise/execute machine    *)
(*     (nanobot/agent/tools/codex/{client,merge_tool,models,store}.py)     *)
(*   - the agent loop: slash commands, tool-calling iteration, turn        *)
(*     persistence and memory consolidation (nanobot/agent/loop.py)        *)
(***************************************************************************)
EXTENDS Integers, Sequences, FiniteSets, TLC

(***************************************************************************)
(* Bounds of the model                                                     *)
(***************************************************************************)
MaxPlans == 2
MaxTokens == 2

(***************************************************************************)
(* Codex merge: state                                                      *)
(*   config       CodexToolConfig flags seen by the tools                  *)
(*   plans        MergePlanStore: plan_id (index) -> MergePlanRecord       *)
(*   order        plan ids, most recently saved first (updated_at_ms desc) *)
(*   reportExists the report file under workspace/reports exists           *)
(*   nextToken    the next value secrets.token_hex(16) yields (fresh)      *)
(*   lastRun      what the last tool call did with the Codex client        *)
(*   call, resp   arguments and JSON response of the last tool call        *)
(*   issued       plan id -> tokens minted for it, oldest first            *)
(*   spent        tokens with which an execute_merge succeeded             *)
(***************************************************************************)
VARIABLES config, plans, order, reportExists, nextToken, lastRun,
          call, resp, issued, spent

mergeVars == <<config, plans, order, reportExists, nextToken, lastRun,
               call, resp, issued, spent>>

(***************************************************************************)
(* Agent loop: state (one session key)                                     *)
(*   messages, last_consolidated   the Session                             *)
(*   consolidating   the session key is in AgentLoop._consolidating        *)
(*   pc              where _process_message stands: idle, consolidate      *)
(*                   (awaiting the consolidation LLM call), chat (about to *)
(*                   call provider.chat in _run_agent_loop)                *)
(*   ctx             the messages list of _run_agent_loop                  *)
(*   iteration, tools_used, text_only_retried   its locals                 *)
(*   on_progress     the turn was given a progress callback                *)
(*   respLog         the LLM responses of the turn so far                  *)
(*   reply           content of the last OutboundMessage returned          *)
(*   lastTurn        the turn that produced the last reply, if a turn did: *)
(*                   its LLM responses, its tools_used and the entries the *)
(*                   session gained                                        *)
(*   archives        snapshots of /new whose background archival awaits    *)
(*                   the LLM                                               *)
(*   lastNew         what the last /new did and how its archival ended     *)
(*   memlog          the LLM result of the last finished consolidation and *)
(*                   what it wrote                                         *)
(***************************************************************************)
VARIABLES messages, last_consolidated, consolidating, pc, ctx, iteration,
          tools_used, text_only_retried, on_progress, respLog, lastTurn,
          reply, archives, lastNew, memlog

\* The inbound message being processed and the recent-image carry-over:
\*   inbound       the message _process_message is working on
\*   recent_image  turns_left of the session's _recent_image_context (0: none)
\*   image_file    the remembered path still names a readable image file
\*   imglog        the turns composed since the last message with an image
VARIABLES inbound, recent_image, image_file, imglog

imageVars == <<inbound, recent_image, image_file, imglog>>

\* The outbound side and the life of the loop:
\*   published  the OutboundMessages put on the bus while the current (or
\*              last) inbound message was handled
\*   delivered  the last delivery of the cron dispatcher
\*   error      the exception that ended the handling of that message
\*   run_loop   where run() stands: not_started, running, stopping (the
\*              _running flag was cleared while the loop waits for a
\*              message), exiting (the flag was cleared and the loop is, or
\*              was since, busy with a message), terminated
\*   mcp        _mcp_servers configured, the _mcp_connected flag, the state
\*              of the connection and the connection attempts made
\*   tool_context  the channel and chat the message, spawn and cron tools
\*              hold since the last _set_tool_context
VARIABLES published, delivered, error, run_loop, mcp, tool_context

busVars == <<published, delivered, error, run_loop, mcp, tool_context>>

loopVars == <<messages, last_consolidated, consolidating, pc, ctx, iteration,
              tools_used, text_only_retried, on_progress, respLog, lastTurn,
              reply, archives, lastNew, memlog, imageVars, busVars>>

\* The todo tool (TodoService over TodoStorage, workspace/memory/todo.md):
\*   todo_file            todo.md is missing, ok (its data block loads) or
\*                        broken (the markers or the JSON between them are
\*                        damaged)
\*   items                store.items, in the order of the file; an id
\*                        T0001 is kept as its letter and digits
\*   last_id              store.meta.last_id
\*   last_review_date     store.meta.last_review_date, as a day number;
\*                        0 is None
\*   last_review_summary  store.meta.last_review_summary
\*   today                today_date(), as a day number
\*   todo_resp            the payload of the last call of the tool
VARIABLES todo_file, items, last_id, last_review_date, last_review_summary,
          today, todo_resp

todoVars == <<todo_file, items, last_id, last_review_date, last_review_summary,
              today, todo_resp>>

\* The cron tool (agent/tools/cron.py) and the cron dispatcher
\* (cron/dispatcher.py):
\*   cron_context   the channel and chat id set_context gave the tool
\*   add_calls      the add_job calls the tool has made on the cron service
\*   cron_result    what the last execute of the tool returned
\*   dispatched     the last job dispatch_cron_job ran: its payload kind, the
\*                  calls it made on the tool registry, the agent turns it
\*                  started and what it returned
VARIABLES cron_context, add_calls, cron_result, dispatched

cronVars == <<cron_context, add_calls, cron_result, dispatched>>

\* SensitiveOutputRedactor (utils/redaction.py):
\*   redactor     the redactor as configured
\*   redact_in    a text
\*   redact_out   what redact returned for the text, and then for what it
\*                had returned
VARIABLES redactor, redact_in, redact_out

redactVars == <<redactor, redact_in, redact_out>>

\* Calls of the merge tool that overlap:
\*   pending      per call slot, the _revise_plan or _execute_merge that is
\*                suspended at its Codex run, with the record it loaded
\*   executions   token -> the execute_merge calls that presented it and ran
\*                Codex to success
\*   partial      the plan ids whose file holds a partially written record
VARIABLES pending, executions, partial

callVars == <<pending, executions, partial>>

extVars == <<cronVars, redactVars, callVars>>

vars == <<mergeVars, loopVars, todoVars, extVars>>

SANDBOXES == {"read-only", "workspace-write", "danger-full-access"}

Tokens == 1..MaxTokens
NoToken == 0
NoHash == 0

\* A confirmation_token argument: the token text t (NoToken: None or empty)
\* with or without surrounding whitespace.
TokenArgs == [t : {NoToken} \cup Tokens, pad : BOOLEAN]

\* str.strip() on a token argument: the whitespace goes, the text stays.
Strip(arg) == arg.t

\* hashlib.sha256(token).hexdigest(): collision-free, and a digest is never
\* a token text nor the empty string.
HashToken(token) == MaxTokens + 1 + token

NoRun == [runs |-> 0, client |-> "none", requested |-> "none",
          effective |-> "none", spawned |-> FALSE, code |-> "none"]

NoCall == [action |-> "none", plan_id |-> 0, token |-> [t |-> NoToken, pad |-> FALSE]]

(***************************************************************************)
(* CodexClient.run                                                         *)
(***************************************************************************)
\* What the environment does once the request passed the policy checks.
\* command_not_found: no process is created (spawn_failed likewise);
\* codex_failed: the process ran and failed (timeout, invalid_output likewise).
EnvOutcomes == {"command_not_found", "codex_failed", "ok"}

\* The arguments of run(), with at most one of them invalid. An invalid
\* mode, prompt or working directory returns before the sandbox argument is
\* read, so these come with no sandbox argument.
Requests ==
    {r \in [mode_ok : BOOLEAN, prompt_ok : BOOLEAN, wd_ok : BOOLEAN,
             sandbox : SANDBOXES \cup {"none", "bogus"}, timeout_ok : BOOLEAN] :
        /\ Cardinality({f \in {"mode_ok", "prompt_ok", "wd_ok", "timeout_ok"} : ~r[f]}) <= 1
        /\ ~(r.mode_ok /\ r.prompt_ok /\ r.wd_ok) => r.sandbox = "none"}

SelectedSandbox(cfg, req) ==
    IF req.sandbox = "none" THEN cfg.default_sandbox ELSE req.sandbox

EffectiveSandbox(cfg, selected) ==
    IF cfg.allow_dangerous_full_access THEN "danger-full-access" ELSE selected

\* run() without its check of the requested danger-full-access.
PolicyGateNoFullAccessCheck(cfg, req) ==
    LET selected == SelectedSandbox(cfg, req)
        effective == EffectiveSandbox(cfg, selected)
    IN  IF ~req.mode_ok THEN "invalid_mode"
        ELSE IF ~req.prompt_ok THEN "invalid_prompt"
        ELSE IF ~req.wd_ok THEN "invalid_working_dir"
        ELSE IF selected \notin SANDBOXES THEN "invalid_sandbox"
        ELSE IF effective = "workspace-write" /\ ~cfg.allow_workspace_write
             THEN "workspace_write_not_allowed"
        ELSE IF ~req.timeout_ok THEN "invalid_timeout"
        ELSE "spawn"
\* The checks of run() before the process is created, in the code's order.
\* "spawn": every check passed.
PolicyGate(cfg, req) ==
    LET selected == SelectedSandbox(cfg, req)
        effective == EffectiveSandbox(cfg, selected)
    IN  IF ~req.mode_ok THEN "invalid_mode"
        ELSE IF ~req.prompt_ok THEN "invalid_prompt"
        ELSE IF ~req.wd_ok THEN "invalid_working_dir"
        ELSE IF selected \notin SANDBOXES THEN "invalid_sandbox"
        ELSE IF selected = "danger-full-access" /\ ~cfg.allow_dangerous_full_access
             THEN "dangerous_full_access_not_allowed"
        ELSE IF effective = "workspace-write" /\ ~cfg.allow_workspace_write
             THEN "workspace_write_not_allowed"
        ELSE IF ~req.timeout_ok THEN "invalid_timeout"
        ELSE "spawn"

\* run(): the record kept of one invocation. The sandbox is selected once
\* mode, prompt and working directory passed. The process exists from
\* create_subprocess_exec on, so not when the command is missing or the
\* spawn itself fails.
ClientRun(client, cfg, req, env) ==
    LET gate == PolicyGate(cfg, req)
        selected == SelectedSandbox(cfg, req)
        code == IF gate # "spawn" THEN gate ELSE env
    IN  [runs |-> 1, client |-> client,
         requested |-> IF gate \in {"invalid_mode", "invalid_prompt", "invalid_working_dir"}
                       THEN "none" ELSE selected,
         effective |-> IF gate = "spawn" THEN EffectiveSandbox(cfg, selected) ELSE "none",
         spawned |-> gate = "spawn" /\ env # "command_not_found",
         code |-> code]

\* A planning client that shares the tool's config.
PlanConfigShared(cfg) == cfg
\* CodexMergeTool.__init__: planning runs use a copy of the config with
\* allow_dangerous_full_access switched off; execution uses the config.
PlanConfig(cfg) == [cfg EXCEPT !.allow_dangerous_full_access = FALSE]

(***************************************************************************)
(* MergePlanRecord and the responses                                       *)
(***************************************************************************)
PlanIds == 1..MaxPlans

\* MergePlanRecord.to_dict as stored by MergePlanStore.save.
NewRecord(token) ==
    [status |-> "planned", confirmation_token_hash |-> HashToken(token),
     revision |-> 0, execution |-> "None"]

\* A revision that keeps the confirmation hash it found.
RevisedRecordSameToken(record, token) ==
    [record EXCEPT !.status = "revised", !.revision = @ + 1]
\* _revise_plan: the record it saves.
RevisedRecord(record, token) ==
    [record EXCEPT !.status = "revised", !.revision = @ + 1,
                   !.confirmation_token_hash = HashToken(token)]

\* A successful execution that leaves the confirmation hash in place.
ExecutedRecordKeepsHash(record) ==
    [record EXCEPT !.status = "executed", !.execution = "ok"]
\* _execute_merge: the record it saves when Codex succeeded.
ExecutedRecord(record) ==
    [record EXCEPT !.status = "executed", !.confirmation_token_hash = NoHash,
                   !.execution = "ok"]

\* A failed execution that clears the confirmation hash.
FailedRecordClearsHash(record) ==
    [record EXCEPT !.status = "failed", !.confirmation_token_hash = NoHash,
                   !.execution = "error"]
\* _execute_merge: the record it saves when Codex failed.
FailedRecord(record) ==
    [record EXCEPT !.status = "failed", !.execution = "error"]

\* A comparison that takes any token while a hash is stored.
TokenAcceptedAnyNonEmpty(record, provided_token) ==
    record.confirmation_token_hash # NoHash
\* The comparison of execute_merge: an empty stored hash accepts nothing.
TokenAccepted(record, provided_token) ==
    /\ record.confirmation_token_hash # NoHash
    /\ HashToken(provided_token) = record.confirmation_token_hash

\* A public view that carries the stored confirmation hash along.
ToPublicDictWithHash(pid, record) ==
    [plan_id |-> pid, status |-> record.status, revision |-> record.revision,
     has_execution |-> record.execution # "None", execution |-> record.execution,
     confirmation_token_hash |-> record.confirmation_token_hash]
\* MergePlanRecord.to_public_dict
to_public_dict(pid, record) ==
    [plan_id |-> pid, status |-> record.status, revision |-> record.revision,
     has_execution |-> record.execution # "None", execution |-> record.execution]

\* A JSON response of the tool, with the keys the claims look at.
Response(action, ok, code, pid, token, status, public) ==
    [action |-> action, ok |-> ok, code |-> code, plan_id |-> pid,
     confirmation_token |-> token, status |-> status, plans |-> public]

ErrorResponse(action, code) ==
    Response(action, FALSE, code, 0, NoToken, "none", <<>>)

\* MergePlanStore.save of plan pid: it becomes the most recently updated.
Saved(pid) == <<pid>> \o SelectSeq(order, LAMBDA q : q # pid)

Head2(s, n) == IF Len(s) <= n THEN s ELSE SubSeq(s, 1, n)

(***************************************************************************)
(* Codex merge: operations                                                 *)
(***************************************************************************)
MergeInit ==
    /\ config \in [enabled : BOOLEAN, allow_dangerous_full_access : BOOLEAN,
                   allow_workspace_write : BOOLEAN, default_sandbox : SANDBOXES]
    /\ plans = <<>>
    /\ order = <<>>
    /\ reportExists = FALSE
    /\ nextToken = 1
    /\ lastRun = NoRun
    /\ call = NoCall
    /\ resp = ErrorResponse("none", "none")
    /\ issued = <<>>
    /\ spent = {}

\* timeout_sec is at least 1 when given (the tool's parameter schema), so the
\* timeout check of run() passes for the merge tool's runs.
\* The tool returned before reaching the Codex client or the store.
Rejected(action, code) ==
    /\ resp' = ErrorResponse(action, code)
    /\ lastRun' = NoRun
    /\ UNCHANGED <<plans, order, nextToken, issued, spent>>

MergeRequest(sandbox, wd_ok) ==
    [mode_ok |-> TRUE, prompt_ok |-> TRUE, wd_ok |-> wd_ok, sandbox |-> sandbox,
     timeout_ok |-> TRUE]

\* CodexMergeTool._plan_latest
plan_latest ==
    /\ UNCHANGED <<loopVars, todoVars, extVars>>
    /\ call' = [NoCall EXCEPT !.action = "plan_latest"]
    /\ UNCHANGED <<config, reportExists>>
    /\ IF ~config.enabled THEN Rejected("plan_latest", "codex_disabled")
       ELSE IF ~reportExists THEN Rejected("plan_latest", "report_not_found")
       ELSE \E wd_ok \in BOOLEAN, env \in EnvOutcomes :
            LET run == ClientRun("plan", PlanConfig(config),
                                 MergeRequest("read-only", wd_ok), env)
                plan_id == Len(plans) + 1
                confirmation_token == nextToken
            IN  /\ lastRun' = run
                /\ IF run.code # "ok"
                   THEN /\ resp' = ErrorResponse("plan_latest", run.code)
                        /\ UNCHANGED <<plans, order, nextToken, issued, spent>>
                   ELSE /\ Len(plans) < MaxPlans
                        /\ nextToken <= MaxTokens
                        /\ plans' = Append(plans, NewRecord(confirmation_token))
                        /\ order' = <<plan_id>> \o order
                        /\ nextToken' = nextToken + 1
                        /\ issued' = Append(issued, <<confirmation_token>>)
                        /\ resp' = Response("plan_latest", TRUE, "none", plan_id,
                                            confirmation_token, "planned", <<>>)
                        /\ UNCHANGED spent

\* CodexMergeTool._revise_plan
revise_plan(plan_id, feedback_ok) ==
    /\ UNCHANGED <<loopVars, todoVars, extVars>>
    /\ call' = [NoCall EXCEPT !.action = "revise_plan", !.plan_id = plan_id]
    /\ UNCHANGED <<config, reportExists>>
    /\ IF ~config.enabled THEN Rejected("revise_plan", "codex_disabled")
       ELSE IF plan_id = 0 THEN Rejected("revise_plan", "missing_plan_id")
       ELSE IF ~feedback_ok THEN Rejected("revise_plan", "missing_feedback")
       ELSE IF plan_id \notin DOMAIN plans THEN Rejected("revise_plan", "plan_not_found")
       ELSE IF ~reportExists THEN Rejected("revise_plan", "report_not_found")
       ELSE \E wd_ok \in BOOLEAN, env \in EnvOutcomes :
            LET run == ClientRun("plan", PlanConfig(config),
                                 MergeRequest("read-only", wd_ok), env)
                confirmation_token == nextToken
                record == RevisedRecord(plans[plan_id], confirmation_token)
            IN  /\ lastRun' = run
                /\ IF run.code # "ok"
                   THEN /\ resp' = Response("revise_plan", FALSE, run.code, plan_id,
                                            NoToken, "none", <<>>)
                        /\ UNCHANGED <<plans, order, nextToken, issued, spent>>
                   ELSE /\ nextToken <= MaxTokens
                        /\ plans' = [plans EXCEPT ![plan_id] = record]
                        /\ order' = Saved(plan_id)
                        /\ nextToken' = nextToken + 1
                        /\ issued' = [issued EXCEPT ![plan_id] = Append(@, confirmation_token)]
                        /\ resp' = Response("revise_plan", TRUE, "none", plan_id,
                                            confirmation_token, record.status, <<>>)
                        /\ UNCHANGED spent

\* CodexMergeTool._execute_merge
execute_merge(plan_id, confirmation_token) ==
    /\ UNCHANGED <<loopVars, todoVars, extVars>>
    /\ call' = [NoCall EXCEPT !.action = "execute_merge", !.plan_id = plan_id,
                              !.token = confirmation_token]
    /\ UNCHANGED <<config, reportExists>>
    /\ LET provided_token == Strip(confirmation_token)
       IN  IF ~config.enabled THEN Rejected("execute_merge", "codex_disabled")
           ELSE IF ~config.allow_dangerous_full_access
                THEN Rejected("execute_merge", "dangerous_full_access_not_allowed")
           ELSE IF plan_id = 0 THEN Rejected("execute_merge", "missing_plan_id")
           ELSE IF provided_token = NoToken
                THEN Rejected("execute_merge", "missing_confirmation_token")
           ELSE IF plan_id \notin DOMAIN plans
                THEN Rejected("execute_merge", "plan_not_found")
           ELSE IF ~TokenAccepted(plans[plan_id], provided_token)
                THEN Rejected("execute_merge", "invalid_confirmation_token")
           ELSE IF ~reportExists THEN Rejected("execute_merge", "report_not_found")
           ELSE \E wd_ok \in BOOLEAN, env \in EnvOutcomes :
                LET run == ClientRun("exec", config,
                                     MergeRequest("danger-full-access", wd_ok), env)
                    record == IF run.code = "ok" THEN ExecutedRecord(plans[plan_id])
                              ELSE FailedRecord(plans[plan_id])
                IN  /\ lastRun' = run
                    /\ plans' = [plans EXCEPT ![plan_id] = record]
                    /\ order' = Saved(plan_id)
                    /\ spent' = IF run.code = "ok" THEN spent \cup {provided_token}
                                ELSE spent
                    /\ resp' = Response("execute_merge", run.code = "ok",
                                        IF run.code = "ok" THEN "none" ELSE run.code,
                                        plan_id, NoToken, record.status, <<>>)
                    /\ UNCHANGED <<nextToken, issued>>

\* CodexMergeTool._status
status(plan_id) ==
    /\ UNCHANGED <<loopVars, todoVars, extVars>>
    /\ call' = [NoCall EXCEPT !.action = "status", !.plan_id = plan_id]
    /\ UNCHANGED <<config, reportExists>>
    /\ IF plan_id = 0 THEN Rejected("status", "missing_plan_id")
       ELSE IF plan_id \notin DOMAIN plans THEN Rejected("status", "plan_not_found")
       ELSE /\ resp' = Response("status", TRUE, "none", 0, NoToken, "none",
                                <<to_public_dict(plan_id, plans[plan_id])>>)
            /\ lastRun' = NoRun
            /\ UNCHANGED <<plans, order, nextToken, issued, spent>>

\* CodexMergeTool._list with MergePlanStore.list
list(limit) ==
    /\ UNCHANGED <<loopVars, todoVars, extVars>>
    /\ call' = [NoCall EXCEPT !.action = "list"]
    /\ LET records == Head2(order, limit)
       IN  resp' = Response("list", TRUE, "none", 0, NoToken, "none",
                            [i \in DOMAIN records |->
                                to_public_dict(records[i], plans[records[i]])])
    /\ lastRun' = NoRun
    /\ UNCHANGED <<config, reportExists, plans, order, nextToken, issued, spent>>

\* CodexRunTool.execute (the tool is registered only when codex is enabled)
codex_run(req) ==
    /\ UNCHANGED <<loopVars, todoVars, extVars>>
    /\ config.enabled
    /\ call' = [NoCall EXCEPT !.action = "codex_run"]
    /\ \E env \in (IF PolicyGate(config, req) = "spawn" THEN EnvOutcomes ELSE {"ok"}) :
       LET run == ClientRun("run", config, req, env)
       IN  /\ lastRun' = run
           /\ resp' = Response("codex_run", run.code = "ok",
                               IF run.code = "ok" THEN "none" ELSE run.code,
                               0, NoToken, "none", <<>>)
    /\ UNCHANGED <<config, reportExists, plans, order, nextToken, issued, spent>>

\* The report under workspace/reports is written (scripts/upstream_main_report.py)
\* or removed by the operator.
WriteReport ==
    /\ UNCHANGED <<loopVars, todoVars, extVars>>
    /\ ~reportExists
    /\ reportExists' = TRUE
    /\ UNCHANGED <<config, plans, order, nextToken, lastRun, call, resp, issued, spent>>

RemoveReport ==
    /\ UNCHANGED <<loopVars, todoVars, extVars>>
    /\ reportExists
    /\ reportExists' = FALSE
    /\ UNCHANGED <<config, plans, order, nextToken, lastRun, call, resp, issued, spent>>

\* The plan_id arguments tried: none (0) and every id a plan can have.
PlanIdArgs == 0..MaxPlans

MergeNext ==
    \/ plan_latest
    \/ \E plan_id \in PlanIdArgs, feedback_ok \in BOOLEAN :
            revise_plan(plan_id, feedback_ok)
    \/ \E plan_id \in PlanIdArgs, confirmation_token \in TokenArgs :
            execute_merge(plan_id, confirmation_token)
    \/ \E plan_id \in PlanIdArgs : status(plan_id)
    \/ \E limit \in 1..MaxPlans : list(limit)
    \/ WriteReport
    \/ RemoveReport

\* The two codex tools side by side.
CodexNext ==
    \/ MergeNext
    \/ \E req \in Requests : codex_run(req)

\* AgentLoop(max_iterations=..., memory_window=...): small values of the two
\* settings, and the bounds on the session, a model response and pending
\* archival tasks.
max_iterations == 3
memory_window == 2
MaxMessages == 6
MaxToolCalls == 2
MaxArchives == 1
MaxFollowups == 3

\* _RECENT_IMAGE_FOLLOWUP_TURNS
RECENT_IMAGE_FOLLOWUP_TURNS == 2

Max(a, b) == IF a >= b THEN a ELSE b

\* A session or context entry: role, number of tool_calls carried, whether
\* tools_used is given, and the tool_call id a tool result answers.
Entry(role, tool_calls, used, call_id) ==
    [role |-> role, tool_calls |-> tool_calls, tools_used |-> used, call_id |-> call_id]

\* Session.add_message
add_message(msgs, role, used) == Append(msgs, Entry(role, 0, used > 0, 0))

\* Session.get_history(max_messages): the last max_messages entries, role and
\* content only.
get_history(msgs, max_messages) ==
    LET recent == IF Len(msgs) > max_messages
                  THEN SubSeq(msgs, Len(msgs) - max_messages + 1, Len(msgs))
                  ELSE msgs
    IN  [i \in DOMAIN recent |-> Entry(recent[i].role, 0, FALSE, 0)]

\* ContextBuilder.build_messages: system prompt, history, current user message.
build_messages(history) ==
    <<Entry("system", 0, FALSE, 0)>> \o history \o <<Entry("user", 0, FALSE, 0)>>

\* ContextBuilder.add_assistant_message / add_tool_result
add_assistant_message(context, tool_calls) ==
    Append(context, Entry("assistant", tool_calls, FALSE, 0))
add_tool_result(context, call_id) == Append(context, Entry("tool", 0, FALSE, call_id))

\* A loop that runs the tool calls of a response from the last to the first.
ExecuteToolCallsLastFirst(context, k, n) ==
    context \o [j \in 1..(n - k + 1) |-> Entry("tool", 0, FALSE, n + 1 - j)]

RECURSIVE ExecuteToolCalls(_, _, _)
\* for tool_call in response.tool_calls: execute it, append its result.
ExecuteToolCalls(context, k, n) ==
    IF k > n THEN context
    ELSE ExecuteToolCalls(add_tool_result(context, k), k + 1, n)

\* A loop condition that lets one more iteration through.
LoopContinuesOffByOne(it) == it <= max_iterations
\* while iteration < self.max_iterations
LoopContinues(it) == it < max_iterations

\* keep_count = max(2, self.memory_window // 2)
keep_count == Max(2, memory_window \div 2)

\* if len(session.messages) > self.memory_window and key not in _consolidating
ShouldConsolidate(msgs, inflight) == Len(msgs) > memory_window /\ ~inflight

\* Where the slice seq[start:...] of a list of length n begins: a negative
\* start counts from the end.
SliceStart(start, n) == IF start < 0 THEN Max(0, n + start) ELSE start

\* The slice _consolidate_memory hands to the LLM; empty: it returns before
\* calling the LLM.
old_messages(msgs, last, archive_all) ==
    IF msgs = <<>> THEN <<>>
    ELSE IF archive_all THEN msgs
    ELSE IF Len(msgs) <= keep_count THEN <<>>
    ELSE IF Len(msgs) - last <= 0 THEN <<>>
    ELSE SubSeq(msgs, SliceStart(last, Len(msgs)) + 1, Len(msgs) - keep_count)

\* What the consolidation LLM call yields: an exception of the provider, an
\* empty text, text that is no JSON object, or an object whose history_entry
\* is absent, a string, a blank string or another JSON value and whose
\* memory_update is absent, the current memory, a new string or another
\* JSON value.
ConsolidationResults ==
    [kind : {"exception", "empty", "not_dict"}, entry : {"none"}, update : {"none"}]
    \cup [kind : {"dict"}, entry : {"none", "str", "blank", "obj"},
          update : {"none", "same", "new", "obj"}]

\* A consolidation that drops a history_entry that is no string.
AppendsHistoryStringsOnly(result) == result.kind = "dict" /\ result.entry = "str"

\* memory.append_history is called
AppendsHistory(result) == result.kind = "dict" /\ result.entry \in {"str", "obj"}
\* memory.write_long_term is called
WritesMemory(result) == result.kind = "dict" /\ result.update \in {"new", "obj"}

\* An inbound message: whether its media holds a readable image file, the
\* channel and chat it came from, and whether run() took it from the bus or
\* process_direct was called with it.
Chats == {"feishu:ou_test", "telegram:999"}
Message(image, chat, via) == [image |-> image, chat |-> chat, via |-> via]
PlainMessage == Message(FALSE, "feishu:ou_test", "run")
NoInbound == Message(FALSE, "none", "none")

\* Text with and without something the redactor masks; media paths.
Contents == {"text", "secret"}
Sends == {"no", "text_only", "with_media"}

\* SensitiveOutputRedactor.redact, enabled
redact_text(content) == IF content = "secret" THEN "[REDACTED_SECRET]" ELSE content

\* OutboundPolicy.normalize_media_paths
normalize_media_paths(media) == IF media = "relative" THEN "absolute" ELSE media

\* An OutboundMessage as its producer built it; policy: it went through
\* OutboundPolicy.redact_outbound.
OutboundMessage(source, chat, content, media) ==
    [source |-> source, chat |-> chat, content |-> content, media |-> media,
     policy |-> FALSE]
NoOutbound == OutboundMessage("none", "none", "none", "none")

\* OutboundPolicy.redact_outbound
redact_outbound(msg) ==
    [msg EXCEPT !.content = redact_text(@), !.media = normalize_media_paths(@),
                !.policy = TRUE]

\* _publish_outbound_safe: the outbound queue after the message was put on it
publish_outbound_safe(queue, msg) == Append(queue, redact_outbound(msg))

\* MessageTool.execute through its send callback
SendByTool(queue, context, content, send) ==
    IF send = "no" THEN queue
    ELSE publish_outbound_safe(queue,
            OutboundMessage("tool", context, content,
                            IF send = "with_media" THEN "relative" ELSE "none"))

\* An error handler of run() that gives up the loop.
HandleErrorStopsLoop(queue, msg) ==
    [published |-> publish_outbound_safe(queue,
                      OutboundMessage("apology", msg.chat, "text", "none")),
     run_loop |-> "terminated"]

\* run(): except Exception around _process_message
HandleError(queue, msg) ==
    [published |-> publish_outbound_safe(queue,
                      OutboundMessage("apology", msg.chat, "text", "none")),
     run_loop |-> run_loop]

\* run(): the loop is inside wait_for(consume_inbound(), timeout=1.0), where
\* it takes a message whatever the flag says
Waiting(state) == state \in {"running", "stopping"}

\* A run() that goes on for ever once the flag is cleared.
AfterConsumeKeepsWaiting(state) == state

\* run(): where the loop stands once it took a message; `while
\* self._running` is read again when the message is done with
AfterConsume(state) == IF state = "stopping" THEN "exiting" ELSE state

\* stop(): the flag is cleared. busy says that run() is handling a message.
\* Before run() the call is lost, since run() sets the flag.
stop(state, busy) ==
    IF state = "running" THEN (IF busy THEN "exiting" ELSE "stopping") ELSE state

\* _connect_mcp: what a call can meet. It returns at once when the flag is
\* set or no server is configured; otherwise connect_mcp_servers succeeds,
\* fails and logs, or raises.
ConnectOutcomes(m) ==
    IF m.connected \/ ~m.servers THEN {"skipped"} ELSE {"ok", "logged", "raise"}

\* _connect_mcp: the flag is set before the connection is tried.
connect_mcp(m, outcome) ==
    IF outcome = "skipped" THEN m
    ELSE [m EXCEPT !.connected = TRUE,
                   !.status = IF outcome = "ok" THEN "ok" ELSE "failed",
                   !.attempts = @ + 1]

NoMcp == [servers |-> FALSE, connected |-> FALSE, status |-> "none", attempts |-> 0]
NoImglog == [seen |-> FALSE, followups |-> <<>>]

\* OutboundPolicy.remember_recent_image: the turns_left stored
remember_recent_image == RECENT_IMAGE_FOLLOWUP_TURNS

\* A carry-over that never counts the follow-up turns down.
ConsumeRecentImageNoCountdown(turns_left, is_image_file) ==
    IF turns_left <= 0 \/ ~is_image_file
    THEN [path |-> FALSE, turns_left |-> 0]
    ELSE [path |-> TRUE, turns_left |-> turns_left]

\* OutboundPolicy.consume_recent_image: whether a path is returned, and the
\* turns_left kept in the session metadata (0: the entry is popped).
consume_recent_image(turns_left, is_image_file) ==
    IF turns_left <= 0 THEN [path |-> FALSE, turns_left |-> 0]
    ELSE IF ~is_image_file THEN [path |-> FALSE, turns_left |-> 0]
    ELSE [path |-> TRUE, turns_left |-> turns_left - 1]

NoNew == [cleared |-> FALSE, reply |-> "none", archive |-> "none"]
NoResult == [kind |-> "none", entry |-> "none", update |-> "none"]
NoMemlog == [who |-> "none", result |-> NoResult, history |-> FALSE, memory |-> FALSE,
             ok |-> FALSE]
NoTurn == [responses |-> <<>>, tools_used |-> 0, gained |-> <<>>]

LoopInit ==
    /\ messages = <<>>
    /\ last_consolidated = 0
    /\ consolidating = FALSE
    /\ pc = "idle"
    /\ ctx = <<>>
    /\ iteration = 0
    /\ tools_used = 0
    /\ text_only_retried = FALSE
    /\ on_progress = FALSE
    /\ respLog = <<>>
    /\ lastTurn = NoTurn
    /\ reply = "none"
    /\ archives = <<>>
    /\ lastNew = NoNew
    /\ memlog = NoMemlog
    /\ inbound = NoInbound
    /\ recent_image = 0
    /\ image_file = FALSE
    /\ imglog = NoImglog
    /\ published = <<>>
    /\ delivered = NoOutbound
    /\ error = "none"
    /\ mcp \in {NoMcp, [NoMcp EXCEPT !.servers = TRUE]}
    /\ run_loop = IF mcp.servers THEN "not_started" ELSE "running"
    /\ tool_context = "none"

\* _process_message, "/new": the session is cleared and saved, then the
\* archival of the snapshot is left to a background task.
ClearedOnNew(msgs) == <<>>
ProcessNew(msg) ==
    /\ UNCHANGED <<mergeVars, todoVars, extVars>>
    /\ pc = "idle"
    /\ Waiting(run_loop)
    /\ run_loop' = AfterConsume(run_loop)
    /\ messages # <<>> => Len(archives) < MaxArchives
    /\ messages' = ClearedOnNew(messages)
    /\ last_consolidated' = 0
    /\ archives' = IF messages = <<>> THEN archives ELSE Append(archives, Len(messages))
    /\ reply' = "New session started. Memory consolidation in progress."
    /\ lastNew' = [cleared |-> messages' # messages, reply |-> reply',
                   archive |-> IF messages = <<>> THEN "none" ELSE "pending"]
    /\ lastTurn' = NoTurn
    /\ published' = publish_outbound_safe(<<>>,
                        OutboundMessage("reply", msg.chat, "text", "none"))
    /\ error' = "none"
    /\ UNCHANGED <<consolidating, pc, ctx, iteration, tools_used, text_only_retried,
                   on_progress, respLog, memlog, imageVars, delivered, mcp,
                   tool_context>>

\* process_direct("/new") on the session key while a turn of that session is
\* suspended at an LLM call: the same /new branch, on the session object the
\* suspended turn holds; its reply goes to the caller of process_direct.
DirectNewDuringTurn ==
    /\ UNCHANGED <<mergeVars, todoVars, extVars>>
    /\ pc \in {"consolidate", "chat"}
    /\ messages # <<>> => Len(archives) < MaxArchives
    /\ messages' = ClearedOnNew(messages)
    /\ last_consolidated' = 0
    /\ archives' = IF messages = <<>> THEN archives ELSE Append(archives, Len(messages))
    /\ lastNew' = [cleared |-> messages' # messages,
                   reply |-> "New session started. Memory consolidation in progress.",
                   archive |-> IF messages = <<>> THEN "none" ELSE "pending"]
    /\ UNCHANGED <<consolidating, pc, ctx, iteration, tools_used, text_only_retried,
                   on_progress, respLog, lastTurn, reply, memlog, imageVars, busVars>>

\* _process_message, "/help"
ProcessHelp(msg) ==
    /\ UNCHANGED <<mergeVars, todoVars, extVars>>
    /\ pc = "idle"
    /\ Waiting(run_loop)
    /\ run_loop' = AfterConsume(run_loop)
    /\ reply' = "nanobot commands"
    /\ lastTurn' = NoTurn
    /\ published' = publish_outbound_safe(<<>>,
                        OutboundMessage("reply", msg.chat, "text", "none"))
    /\ error' = "none"
    /\ UNCHANGED <<messages, last_consolidated, consolidating, pc, ctx, iteration,
                   tools_used, text_only_retried, on_progress, respLog,
                   archives, lastNew, memlog, imageVars, delivered, mcp,
                   tool_context>>

\* The background task of /new: _consolidate_memory(temp_session,
\* archive_all=True) gets its LLM result. Only the memory files change: the
\* offset it resets is the temporary session's.
ArchiveDone(i, result) ==
    /\ UNCHANGED <<mergeVars, todoVars, extVars>>
    /\ i \in DOMAIN archives
    /\ archives' = SubSeq(archives, 1, i - 1) \o SubSeq(archives, i + 1, Len(archives))
    /\ memlog' = [who |-> "archive", result |-> result,
                  history |-> AppendsHistory(result),
                  memory |-> WritesMemory(result), ok |-> result.kind = "dict"]
    /\ lastNew' = [lastNew EXCEPT !.archive = IF result.kind = "dict" THEN "ok"
                                               ELSE "failed"]
    /\ UNCHANGED <<messages, last_consolidated, consolidating, pc, ctx, iteration,
                   tools_used, text_only_retried, on_progress, respLog, lastTurn,
                   reply, imageVars, busVars>>

\* The image carry-over of _process_message for the message msg: an image in
\* its media is remembered, otherwise the remembered one is consumed and
\* joins the media the user content is composed from.
CarryImage(msg) ==
    LET recent == consume_recent_image(recent_image, image_file)
        included == msg.image \/ recent.path
    IN  /\ recent_image' = IF msg.image THEN remember_recent_image ELSE recent.turns_left
        /\ image_file' = IF msg.image THEN TRUE ELSE image_file
        /\ imglog' = IF msg.image THEN [seen |-> TRUE, followups |-> <<>>]
                      ELSE IF imglog.seen
                      THEN [imglog EXCEPT !.followups =
                               Append(@, [included |-> included, file |-> image_file])]
                      ELSE imglog

\* The locals of _run_agent_loop on entry, with the context built from the
\* session as it is now and the media of the message msg.
EnterLoop(msg) ==
    /\ CarryImage(msg)
    /\ ctx' = build_messages(get_history(messages, memory_window))
    /\ iteration' = 0
    /\ tools_used' = 0
    /\ text_only_retried' = FALSE
    /\ respLog' = <<>>
    /\ tool_context' = msg.chat
    /\ pc' = "chat"

\* A message that is no slash command, up to the first await of
\* _process_message: run() takes it from the bus, or process_direct is called
\* with it and first calls _connect_mcp, whose exception goes to the caller.
\* Then the memory-window check, and either the consolidation LLM call or the
\* agent loop. Nothing is replied to this message yet.
ProcessMessage(msg, progress) ==
    /\ UNCHANGED <<mergeVars, todoVars, extVars>>
    /\ pc = "idle"
    /\ msg.via = "run" => Waiting(run_loop)
    /\ run_loop' = IF msg.via = "run" THEN AfterConsume(run_loop) ELSE run_loop
    /\ Len(messages) + 2 <= MaxMessages
    /\ (imglog.seen /\ ~msg.image) => Len(imglog.followups) < MaxFollowups
    /\ published' = <<>>
    /\ reply' = "none"
    /\ lastTurn' = NoTurn
    /\ \E outcome \in (IF msg.via = "direct" THEN ConnectOutcomes(mcp) ELSE {"skipped"}) :
        /\ mcp' = connect_mcp(mcp, outcome)
        /\ IF outcome = "raise"
           THEN /\ error' = "mcp"
                /\ UNCHANGED <<inbound, on_progress, consolidating, pc, ctx, iteration,
                               tools_used, text_only_retried, respLog,
                               recent_image, image_file, imglog, tool_context>>
           ELSE /\ error' = "none"
                /\ inbound' = msg
                /\ on_progress' = progress
                /\ IF ShouldConsolidate(messages, consolidating)
                      /\ old_messages(messages, last_consolidated, FALSE) # <<>>
                   THEN /\ consolidating' = TRUE
                        /\ pc' = "consolidate"
                        /\ UNCHANGED <<ctx, iteration, tools_used, text_only_retried,
                                       respLog, recent_image, image_file, imglog,
                                       tool_context>>
                   ELSE /\ EnterLoop(msg)
                        /\ UNCHANGED consolidating
    /\ UNCHANGED <<messages, last_consolidated, archives, lastNew, memlog,
                   delivered>>

\* _consolidate_memory(session) gets its LLM result; the key leaves
\* _consolidating and the turn goes on to the agent loop.
ConsolidateDone(result) ==
    /\ UNCHANGED <<mergeVars, todoVars, extVars>>
    /\ pc = "consolidate"
    /\ memlog' = [who |-> "turn", result |-> result,
                  history |-> AppendsHistory(result),
                  memory |-> WritesMemory(result), ok |-> result.kind = "dict"]
    /\ last_consolidated' = IF result.kind = "dict" THEN Len(messages) - keep_count
                            ELSE last_consolidated
    /\ consolidating' = FALSE
    /\ EnterLoop(inbound)
    /\ UNCHANGED <<messages, on_progress, reply, lastTurn, archives, lastNew, inbound,
                   published, delivered, error, run_loop, mcp>>

\* The messages a finished turn adds to the session.
PersistTurn(msgs, final_used) ==
    add_message(add_message(msgs, "user", 0), "assistant", final_used)

\* The rest of _process_message once _run_agent_loop returned: the reply,
\* the session's new entries; the locals of the call are gone. run()
\* publishes the reply; process_direct hands its text to the caller.
FinishTurn(final_content, context, used, responses, queue) ==
    /\ reply' = IF final_content = "none"
                THEN "I've completed processing but have no response to give."
                ELSE redact_text(final_content)
    /\ published' = IF inbound.via = "run"
                    THEN publish_outbound_safe(queue,
                            OutboundMessage("reply", inbound.chat, reply', "none"))
                    ELSE queue
    /\ messages' = PersistTurn(messages, used)
    /\ lastTurn' = [responses |-> responses, tools_used |-> used,
                    gained |-> SubSeq(messages', Len(messages) + 1, Len(messages'))]
    /\ pc' = "idle"
    /\ ctx' = <<>>
    /\ iteration' = 0
    /\ tools_used' = 0
    /\ text_only_retried' = FALSE
    /\ on_progress' = FALSE
    /\ respLog' = <<>>
    /\ inbound' = NoInbound

\* One pass of the while loop of _run_agent_loop: response > 0 is that many
\* tool calls, 0 a text answer, -1 an answer that is empty once the think
\* blocks are stripped. content is the text of the answer or of the message
\* the first tool call sends, send whether that call is the message tool.
Chat(response, content, send) ==
    /\ UNCHANGED <<mergeVars, todoVars, extVars>>
    /\ pc = "chat"
    /\ LoopContinues(iteration)
    /\ LET retry == /\ response = 0
                    /\ on_progress /\ tools_used = 0 /\ ~text_only_retried
           context == IF response > 0
                      THEN ExecuteToolCalls(add_assistant_message(ctx, response), 1, response)
                      ELSE IF retry THEN add_assistant_message(ctx, 0)
                      ELSE ctx
           used == IF response > 0 THEN tools_used + response ELSE tools_used
           queue == IF response > 0 THEN SendByTool(published, tool_context, content, send)
                    ELSE published
           exits == (response <= 0 /\ ~retry) \/ ~LoopContinues(iteration + 1)
           final_content == IF response = 0 /\ ~retry THEN content
                            ELSE IF iteration + 1 >= max_iterations
                                 THEN "Reached max_iterations iterations without completion."
                            ELSE "none"
       IN  IF exits
           THEN FinishTurn(final_content, context, used, Append(respLog, response), queue)
           ELSE /\ ctx' = context
                /\ iteration' = iteration + 1
                /\ tools_used' = used
                /\ text_only_retried' = (text_only_retried \/ retry)
                /\ respLog' = Append(respLog, response)
                /\ published' = queue
                /\ UNCHANGED <<messages, pc, reply, lastTurn, on_progress, inbound>>
    /\ UNCHANGED <<last_consolidated, consolidating, archives, lastNew, memlog,
                   recent_image, image_file, imglog, delivered, error, run_loop, mcp,
                   tool_context>>

\* provider.chat raises in _run_agent_loop: the exception leaves
\* _process_message with nothing persisted. run() catches it and publishes
\* its apology; from process_direct it goes to the caller.
Raise ==
    /\ UNCHANGED <<mergeVars, todoVars, extVars>>
    /\ pc = "chat"
    /\ LoopContinues(iteration)
    /\ error' = "llm"
    /\ IF inbound.via = "run"
       THEN /\ published' = HandleError(published, inbound).published
            /\ run_loop' = HandleError(published, inbound).run_loop
       ELSE UNCHANGED <<published, run_loop>>
    /\ pc' = "idle"
    /\ ctx' = <<>>
    /\ iteration' = 0
    /\ tools_used' = 0
    /\ text_only_retried' = FALSE
    /\ on_progress' = FALSE
    /\ respLog' = <<>>
    /\ inbound' = NoInbound
    /\ UNCHANGED <<messages, last_consolidated, consolidating, lastTurn, reply, archives,
                   lastNew, memlog, recent_image, image_file, imglog, delivered, mcp,
                   tool_context>>

\* run() is started: _connect_mcp, then the loop; an exception of the
\* connection leaves run() before the loop.
RunStart ==
    /\ UNCHANGED <<mergeVars, todoVars, extVars>>
    /\ run_loop = "not_started"
    /\ \E outcome \in ConnectOutcomes(mcp) :
        /\ mcp' = connect_mcp(mcp, outcome)
        /\ run_loop' = IF outcome = "raise" THEN "terminated" ELSE "running"
        /\ error' = IF outcome = "raise" THEN "mcp" ELSE "none"
    /\ UNCHANGED <<messages, last_consolidated, consolidating, pc, ctx, iteration,
                   tools_used, text_only_retried, on_progress, respLog, lastTurn,
                   reply, archives, lastNew, memlog, imageVars, published, delivered,
                   tool_context>>

\* run() is handling a message it took from the bus.
RunBusy == pc # "idle" /\ inbound.via = "run"

\* stop() is called, from any task, at any time.
Stop ==
    /\ UNCHANGED <<mergeVars, todoVars, extVars>>
    /\ run_loop' = stop(run_loop, RunBusy)
    /\ UNCHANGED <<messages, last_consolidated, consolidating, pc, ctx, iteration,
                   tools_used, text_only_retried, on_progress, respLog, lastTurn,
                   reply, archives, lastNew, memlog, imageVars, published, delivered,
                   error, mcp, tool_context>>

\* run(): `while self._running` is read with the flag cleared, after the
\* timeout of wait_for or after the message the loop was busy with; run()
\* returns.
RunExit ==
    /\ UNCHANGED <<mergeVars, todoVars, extVars>>
    /\ run_loop \in {"stopping", "exiting"}
    /\ ~RunBusy
    /\ run_loop' = "terminated"
    /\ UNCHANGED <<messages, last_consolidated, consolidating, pc, ctx, iteration,
                   tools_used, text_only_retried, on_progress, respLog, lastTurn,
                   reply, archives, lastNew, memlog, imageVars, published, delivered,
                   error, mcp, tool_context>>

AlwaysNamed(tool_name) == "codex_merge"
\* (job.payload.tool_name or "").strip(), tool_name being nothing (None) or
\* one text
stripped_tool_name(tool_name) ==
    IF tool_name = {} THEN "" ELSE Strip(CHOOSE n \in tool_name : TRUE)

\* dispatch_cron_job: a system_event delivers its message, a tool_call the
\* result of the tool or the error of a job without tool name, any other job the answer of process_direct on the
\* job's own session (its text comes back through _redact_text); _deliver
\* puts the message on the bus when the job asks for delivery. The
\* _process_message of process_direct sets the tool context to the job's
\* channel and recipient.
dispatch_cron_job(kind, content, deliver, tool_name, tool_args) ==
    LET name == stripped_tool_name(tool_name)
        args == IF tool_args = {} THEN {} ELSE CHOOSE a \in tool_args : TRUE
        result == IF kind = "agent_turn" THEN redact_text(content)
                  ELSE IF kind = "tool_call" /\ name = ""
                  THEN "Error: tool_name is required for tool_call payload"
                  ELSE content
    IN
    /\ UNCHANGED <<mergeVars, todoVars>>
    /\ \E outcome \in (IF kind = "agent_turn" THEN ConnectOutcomes(mcp) ELSE {"skipped"}) :
        /\ mcp' = connect_mcp(mcp, outcome)
        /\ tool_context' = IF kind = "agent_turn" /\ outcome # "raise" THEN "cron:to"
                           ELSE tool_context
        /\ delivered' =
              IF outcome = "raise" \/ ~deliver THEN NoOutbound
              ELSE OutboundMessage("cron", "cron:to", result, "none")
        /\ dispatched' =
              [kind |-> kind, tool_name |-> tool_name, tool_args |-> tool_args,
               executed |-> IF kind = "tool_call" /\ name # ""
                            THEN <<[name |-> name, args |-> args]>> ELSE <<>>,
               turns |-> IF kind = "agent_turn" THEN 1 ELSE 0,
               result |-> IF outcome = "raise" THEN "" ELSE result]
    /\ UNCHANGED <<messages, last_consolidated, consolidating, pc, ctx, iteration,
                   tools_used, text_only_retried, on_progress, respLog, lastTurn,
                   reply, archives, lastNew, memlog, imageVars, published, error,
                   run_loop, cron_context, add_calls, cron_result, redactVars,
                   callVars>>

\* The file the session remembers is deleted or replaced by something that is
\* no image.
RemoveImage ==
    /\ UNCHANGED <<mergeVars, todoVars, extVars>>
    /\ recent_image > 0
    /\ image_file
    /\ image_file' = FALSE
    /\ UNCHANGED <<messages, last_consolidated, consolidating, pc, ctx, iteration,
                   tools_used, text_only_retried, on_progress, respLog, lastTurn,
                   reply, archives, lastNew, memlog, inbound, recent_image, imglog,
                   busVars>>

\* The consolidation outcomes tried where the claims are about the turn: a
\* failure and a well-formed answer.
TurnResults ==
    {r \in ConsolidationResults :
        \/ r.kind = "exception"
        \/ r.kind = "dict" /\ r.entry = "str" /\ r.update = "new"}

\* Turns with every shape of LLM response, with and without progress callback.
LoopNext ==
    \/ ProcessNew(PlainMessage)
    \/ ProcessHelp(PlainMessage)
    \/ \E progress \in BOOLEAN : ProcessMessage(PlainMessage, progress)
    \/ \E result \in TurnResults : ConsolidateDone(result)
    \/ \E response \in -1..MaxToolCalls : Chat(response, "text", "no")
    \/ \E i \in 1..MaxArchives, result \in TurnResults : ArchiveDone(i, result)

\* Turns answered with plain text, with every outcome of the consolidation
\* LLM call.
MemoryNext ==
    \/ ProcessNew(PlainMessage)
    \/ ProcessHelp(PlainMessage)
    \/ ProcessMessage(PlainMessage, FALSE)
    \/ \E result \in ConsolidationResults : ConsolidateDone(result)
    \/ Chat(0, "text", "no")
    \/ \E i \in 1..MaxArchives, result \in ConsolidationResults : ArchiveDone(i, result)

\* Turns with and without an image, answered with plain text, while the
\* image file may disappear.
ImageNext ==
    \/ ProcessNew(PlainMessage)
    \/ ProcessHelp(PlainMessage)
    \/ \E image \in BOOLEAN : ProcessMessage(Message(image, "feishu:ou_test", "run"), FALSE)
    \/ \E result \in TurnResults : ConsolidateDone(result)
    \/ Chat(0, "text", "no")
    \/ \E i \in 1..MaxArchives, result \in TurnResults : ArchiveDone(i, result)
    \/ RemoveImage

\* Messages through run(), answers with and without sensitive text, sends of
\* the message tool, and cron jobs.
CronKinds == {"system_event", "tool_call", "agent_turn"}
\* payload.tool_name: None, or a text with or without surrounding
\* whitespace; payload.tool_args: None, or a dict seen as its set of keys.
ToolNames == {{}} \cup {{[t |-> t, pad |-> pad]} : t \in {"", "codex_merge"}, pad \in BOOLEAN}
ToolArgs == {{}, {{}}, {{"action"}}}
OutboundNext ==
    \/ ProcessHelp(PlainMessage)
    \/ ProcessMessage(PlainMessage, FALSE)
    \/ \E result \in TurnResults : ConsolidateDone(result)
    \/ \E response \in -1..1, content \in Contents, send \in Sends :
            Chat(response, content, send)
    \/ \E kind \in CronKinds, content \in Contents, deliver \in BOOLEAN :
            dispatch_cron_job(kind, content, deliver,
                              {[t |-> "codex_merge", pad |-> FALSE]}, {})

\* Cron jobs of every payload kind, with and without tool name and
\* arguments.
DispatchNext ==
    \E kind \in CronKinds, content \in Contents, deliver \in BOOLEAN,
       tool_name \in ToolNames, tool_args \in ToolArgs :
        dispatch_cron_job(kind, content, deliver, tool_name, tool_args)

\* Messages of two chats through run() and process_direct, with a provider
\* that can fail.
RunNext ==
    \/ \E chat \in Chats : ProcessNew(Message(FALSE, chat, "run"))
    \/ \E chat \in Chats, via \in {"run", "direct"} :
            ProcessMessage(Message(FALSE, chat, via), FALSE)
    \/ \E result \in TurnResults : ConsolidateDone(result)
    \/ \E response \in 0..1 : Chat(response, "text", "text_only")
    \/ Raise
    \/ \E i \in 1..MaxArchives, result \in TurnResults : ArchiveDone(i, result)

\* An agent with MCP servers configured: run() is started or not, messages
\* come through run() and process_direct, cron jobs run agent turns.
McpNext ==
    \/ RunStart
    \/ \E via \in {"run", "direct"} :
            ProcessMessage(Message(FALSE, "feishu:ou_test", via), FALSE)
    \/ \E result \in TurnResults : ConsolidateDone(result)
    \/ Chat(0, "text", "no")
    \/ Raise
    \/ \E deliver \in BOOLEAN : dispatch_cron_job("agent_turn", "text", deliver, {}, {})

(***************************************************************************)
(* The todo tool: TodoService (service.py) over TodoStorage (storage.py)   *)
(***************************************************************************)
\* Ids handed out in a run of the model, and days it spans.
MaxTodoId == 3
MaxDays == 2

VALID_STATUSES == {"todo", "doing", "blocked", "done", "archived"}
OPEN_STATUSES == {"todo", "doing", "blocked"}

\* f"T{n:04d}": the letter, then the digits of n on at least four places
TodoId(n) == <<"T", n \div 1000, (n \div 100) % 10, (n \div 10) % 10, n % 10>>

\* int(id[1:])
IdNumber(id) == id[2] * 1000 + id[3] * 100 + id[4] * 10 + id[5]

\* TodoItem, for its id, status, depends_on and whether completed_at is set
TodoItem(id, item_status, depends_on, completed_at) ==
    [id |-> id, status |-> item_status, depends_on |-> depends_on,
     completed_at |-> completed_at]

\* last_review_summary None
NoSummary == [total |-> -1, open |-> -1, focus |-> <<>>]

\* create_default_store, once saved
create_default_store ==
    [file |-> "ok", items |-> <<>>, last_id |-> 0,
     last_review_date |-> 0, last_review_summary |-> NoSummary]

\* todo.md as it is
Store ==
    [file |-> todo_file, items |-> items, last_id |-> last_id,
     last_review_date |-> last_review_date,
     last_review_summary |-> last_review_summary]

\* load_or_init_store on a file that is missing or loads
load_or_init_store(store) ==
    IF store.file = "missing" THEN create_default_store ELSE store

Ids(its) == {its[i].id : i \in DOMAIN its}

\* _find_item: the place of the first item with the id, 0 for None
FindItem(its, id) ==
    IF id \in Ids(its)
    THEN CHOOSE i \in DOMAIN its :
            its[i].id = id /\ \A j \in 1..(i - 1) : its[j].id # id
    ELSE 0

\* _compute_stats, for the counts and the review it reports
compute_stats(store) ==
    [total |-> Len(store.items),
     open |-> Cardinality({i \in DOMAIN store.items :
                              store.items[i].status \in OPEN_STATUSES}),
     last_review_date |-> store.last_review_date,
     last_review_summary |-> store.last_review_summary]

NoStats == [total |-> -1, open |-> -1, last_review_date |-> 0,
            last_review_summary |-> NoSummary]

\* _error: the payload of a failed call; names are the ids its text lists
error_payload(action, kind, names) ==
    [action |-> action, ok |-> FALSE, error |-> kind, names |-> names,
     already |-> FALSE, summary |-> NoSummary, stats |-> NoStats]

\* _success
success_payload(action, already, summary, stats) ==
    [action |-> action, ok |-> TRUE, error |-> "none", names |-> {},
     already |-> already, summary |-> summary, stats |-> stats]

NoResp == error_payload("none", "none", {})

\* A handler that raised after the store was loaded: nothing is saved but
\* the empty store load_or_init_store wrote for a missing file.
Raised(store, action, kind, names) ==
    [store |-> load_or_init_store(store), resp |-> error_payload(action, kind, names)]

\* A handler that saved st and returned.
Stored(st, action) ==
    [store |-> st,
     resp |-> success_payload(action, FALSE, NoSummary, compute_stats(st))]

\* handle around a handler that starts with load_or_init_store: the
\* exception of _extract_payload becomes the error payload.
Loaded(store, action, result) ==
    IF store.file = "broken"
    THEN [store |-> store, resp |-> error_payload(action, "invalid_file", {})]
    ELSE result

\* An id generator that does not look at the ids in use.
NextIdNoSkip(store) == TodoId(Max(store.last_id, 0) + 1)

\* _next_id
RECURSIVE SkipExisting(_, _)
SkipExisting(next_num, existing) ==
    IF TodoId(next_num) \in existing THEN SkipExisting(next_num + 1, existing)
    ELSE next_num
next_id(store) ==
    TodoId(SkipExisting(Max(store.last_id, 0) + 1, Ids(store.items)))

\* _validate_dependencies, first loop: the first dependency, in the order
\* of the items and (lists being given in ascending order) of the ids, that
\* is the item itself or no id of the store
BadDep(its, i, dep) == dep = its[i].id \/ dep \notin Ids(its)
reference_error(its) ==
    IF \A i \in DOMAIN its : \A dep \in its[i].depends_on : ~BadDep(its, i, dep)
    THEN "none"
    ELSE LET i == CHOOSE k \in DOMAIN its :
                    /\ \E dep \in its[k].depends_on : BadDep(its, k, dep)
                    /\ \A j \in 1..(k - 1) :
                          \A dep \in its[j].depends_on : ~BadDep(its, j, dep)
             dep == CHOOSE d \in its[i].depends_on :
                    /\ BadDep(its, i, d)
                    /\ \A e \in its[i].depends_on :
                          BadDep(its, i, e) => IdNumber(d) <= IdNumber(e)
         IN  IF dep = its[i].id THEN "self" ELSE "missing"

\* _validate_dependencies, the graph: the items that are not archived, each
\* with those of its dependencies that are not archived
ActiveIds(its) == {its[i].id : i \in {j \in DOMAIN its : its[j].status # "archived"}}
graph(its) ==
    [id \in ActiveIds(its) |->
        LET i == CHOOSE k \in DOMAIN its :
                    /\ its[k].id = id /\ its[k].status # "archived"
                    /\ \A j \in DOMAIN its :
                          (its[j].id = id /\ its[j].status # "archived") => j <= k
        IN  its[i].depends_on \cap ActiveIds(its)]

\* The nodes the depth-first search enters from the nodes of frontier.
RECURSIVE Reach(_, _, _)
Reach(g, frontier, seen) ==
    IF frontier \subseteq seen THEN seen
    ELSE Reach(g, UNION {g[n] : n \in frontier}, seen \cup frontier)

\* dfs meets a node that is on its stack
HasCycle(its) == \E n \in DOMAIN graph(its) : n \in Reach(graph(its), graph(its)[n], {})

\* _validate_dependencies: "none", or the error it raises
validate_dependencies(its) ==
    IF reference_error(its) # "none" THEN reference_error(its)
    ELSE IF HasCycle(its) THEN "cycle"
    ELSE "none"

\* A search for dependents that finds none.
FindNoDependents(its, target_ids) == [dep \in {} |-> {}]

\* _find_external_dependents: for each id of target_ids that some item
\* outside target_ids and not archived depends on, those items
Users(its, target_ids, dep) ==
    {its[i].id : i \in {j \in DOMAIN its : /\ its[j].status # "archived"
                                           /\ its[j].id \notin target_ids
                                           /\ dep \in its[j].depends_on}}
find_external_dependents(its, target_ids) ==
    [dep \in {d \in target_ids : Users(its, target_ids, d) # {}} |->
        Users(its, target_ids, dep)]

\* An update that leaves completed_at as it was.
UpdateKeepsCompletedAt(item) == item

\* _update_single_item, its last lines: completed_at follows the status
set_completed_at(item) ==
    [item EXCEPT !.completed_at = IF item.status \in OPEN_STATUSES THEN FALSE
                                  ELSE IF item.status = "done" THEN TRUE
                                  ELSE @]

\* _update_single_item on the items its, with the error it raises or "none";
\* patch is a record of the fields to change
update_single_item(its, id, patch) ==
    LET i == FindItem(its, id)
    IN  IF i = 0 THEN [error |-> "not_found", items |-> its]
        ELSE IF DOMAIN patch \ {"title", "note", "status", "priority", "due",
                                "tags", "depends_on"} # {}
        THEN [error |-> "unsupported", items |-> its]
        ELSE IF "status" \in DOMAIN patch /\ patch.status \notin VALID_STATUSES
        THEN [error |-> "status", items |-> its]
        ELSE LET with_deps == IF "depends_on" \in DOMAIN patch
                              THEN [its[i] EXCEPT !.depends_on = patch.depends_on]
                              ELSE its[i]
                 item == IF "status" \in DOMAIN patch
                         THEN [with_deps EXCEPT !.status = patch.status]
                         ELSE with_deps
                 raised == validate_dependencies([its EXCEPT ![i] = item])
             IN  IF raised # "none" THEN [error |-> raised, items |-> its]
                 ELSE [error |-> "none",
                       items |-> [its EXCEPT ![i] = set_completed_at(item)]]

\* _action_init: a file that exists is loaded, a missing one is created
action_init(store) ==
    IF store.file = "missing" THEN Stored(create_default_store, "init")
    ELSE Loaded(store, "init", Stored(store, "init"))

\* _action_stats
action_stats(store) == Loaded(store, "stats", Stored(load_or_init_store(store), "stats"))

\* _action_add
action_add(store, item_status, depends_on) ==
    LET st == load_or_init_store(store)
        id == next_id(st)
        temp == Append(st.items, TodoItem(id, item_status, depends_on, item_status = "done"))
        raised == validate_dependencies(temp)
    IN  Loaded(store, "add",
           IF raised # "none" THEN Raised(store, "add", raised, {})
           ELSE Stored([st EXCEPT !.items = temp, !.last_id = IdNumber(id)], "add"))

\* _action_update, called as update, move or done: the payload of a success
\* says update, the payload of an error the action that was called
action_update(store, called, id, patch) ==
    LET st == load_or_init_store(store)
        r == update_single_item(st.items, id, patch)
    IN  Loaded(store, called,
           IF r.error # "none" THEN Raised(store, called, r.error, {})
           ELSE Stored([st EXCEPT !.items = r.items], "update"))

\* _action_move
action_move(store, id, item_status) ==
    action_update(store, "move", id, [status |-> item_status])

\* _action_done
action_done(store, id) == action_update(store, "done", id, [status |-> "done"])

\* _action_bulk_update, the loop over the ids on the copy of the store
RECURSIVE UpdateEach(_, _, _)
UpdateEach(its, ids, patch) ==
    IF ids = {} THEN [error |-> "none", items |-> its]
    ELSE LET id == CHOOSE d \in ids : \A e \in ids : IdNumber(d) <= IdNumber(e)
             r == update_single_item(its, id, patch)
         IN  IF r.error # "none" THEN [error |-> r.error, items |-> its]
             ELSE UpdateEach(r.items, ids \ {id}, patch)

\* _action_bulk_update
action_bulk_update(store, ids, patch) ==
    LET st == load_or_init_store(store)
        r == UpdateEach(st.items, ids, patch)
    IN  IF ids = {}
        THEN [store |-> store, resp |-> error_payload("bulk_update", "required", {})]
        ELSE Loaded(store, "bulk_update",
                IF r.error # "none" THEN Raised(store, "bulk_update", r.error, {})
                ELSE Stored([st EXCEPT !.items = r.items], "bulk_update"))

\* The items but those with an id of target_ids.
Without(its, target_ids) == SelectSeq(its, LAMBDA t : t.id \notin target_ids)

\* _action_remove
action_remove(store, id) ==
    LET st == load_or_init_store(store)
        conflicts == find_external_dependents(st.items, {id})
    IN  Loaded(store, "remove",
           IF FindItem(st.items, id) = 0 THEN Raised(store, "remove", "not_found", {})
           ELSE IF DOMAIN conflicts # {}
           THEN Raised(store, "remove", "depended_on", conflicts[id])
           ELSE Stored([st EXCEPT !.items = Without(st.items, {id})], "remove"))

\* A bulk_remove that removes the ids it finds and then reports the others.
BulkRemoveFound(store, ids) ==
    LET st == load_or_init_store(store)
        left == [st EXCEPT !.items = Without(st.items, ids)]
    IN  IF ids \ Ids(st.items) # {}
        THEN [store |-> left,
              resp |-> error_payload("bulk_remove", "not_found", ids \ Ids(st.items))]
        ELSE Stored(left, "bulk_remove")
\* _action_bulk_remove
action_bulk_remove(store, ids) ==
    LET st == load_or_init_store(store)
        conflicts == find_external_dependents(st.items, ids)
    IN  IF ids = {}
        THEN [store |-> store, resp |-> error_payload("bulk_remove", "required", {})]
        ELSE Loaded(store, "bulk_remove",
                IF ids \ Ids(st.items) # {}
                THEN Raised(store, "bulk_remove", "not_found", ids \ Ids(st.items))
                ELSE IF DOMAIN conflicts # {}
                THEN Raised(store, "bulk_remove", "depended_on",
                            UNION {conflicts[dep] : dep \in DOMAIN conflicts})
                ELSE Stored([st EXCEPT !.items = Without(st.items, ids)], "bulk_remove"))

\* An archive that takes every id it is given.
ArchiveAnything(its, ids) == {}

\* _action_archive by ids: the errors the loop over set(ids) can raise; the
\* id the loop meets first decides
archive_errors(its, ids) ==
    {IF FindItem(its, id) = 0 THEN "not_found" ELSE "not_done" :
        id \in {d \in ids : \/ FindItem(its, d) = 0
                            \/ its[FindItem(its, d)].status # "done"}}

\* _action_archive: by ids, or by a filter, which stands here for the ids
\* its criteria match; error is the error the loop over the ids raises.
\* Nothing is saved when nothing was archived.
action_archive(store, ids, filter, raised) ==
    LET st == load_or_init_store(store)
        updated == IF ids # {}
                   THEN {FindItem(st.items, id) : id \in ids}
                   ELSE {i \in DOMAIN st.items : /\ st.items[i].status = "done"
                                                 /\ st.items[i].id \in filter}
        archived == [i \in DOMAIN st.items |->
                        IF i \in updated THEN [st.items[i] EXCEPT !.status = "archived"]
                        ELSE st.items[i]]
    IN  Loaded(store, "archive",
           IF ids # {} /\ raised # "none" THEN Raised(store, "archive", raised, {})
           ELSE Stored([st EXCEPT !.items = archived], "archive"))

\* A review that never finds the day's review done.
NeverReviewed(store, day) == FALSE

\* _action_review_daily: store.meta.last_review_date == today
reviewed_today(store, day) == store.last_review_date = day

\* _action_review_daily, the summary: the counts and the first five open
\* items by priority (all items have the default priority here, and sorted
\* keeps their order)
review_summary(store) ==
    LET open == SelectSeq(store.items, LAMBDA t : t.status \in OPEN_STATUSES)
    IN  [total |-> Len(store.items), open |-> Len(open),
         focus |-> [i \in 1..(IF Len(open) < 5 THEN Len(open) ELSE 5) |-> open[i].id]]

\* _action_review_daily; the stats of a new review are computed before the
\* review is recorded
action_review_daily(store, day) ==
    LET st == load_or_init_store(store)
    IN  Loaded(store, "review_daily",
           IF reviewed_today(st, day)
           THEN [store |-> st,
                 resp |-> success_payload("review_daily", TRUE, NoSummary,
                                          compute_stats(st))]
           ELSE [store |-> [st EXCEPT !.last_review_date = day,
                                      !.last_review_summary = review_summary(st)],
                 resp |-> success_payload("review_daily", FALSE, review_summary(st),
                                          compute_stats(st))])

\* No todo.md yet, no call made.
TodoInit ==
    /\ todo_file = "missing"
    /\ items = <<>>
    /\ last_id = 0
    /\ last_review_date = 0
    /\ last_review_summary = NoSummary
    /\ today = 1
    /\ todo_resp = NoResp

\* TodoService.handle returns: the file is as the handler left it.
Respond(result) ==
    /\ todo_file' = result.store.file
    /\ items' = result.store.items
    /\ last_id' = result.store.last_id
    /\ last_review_date' = result.store.last_review_date
    /\ last_review_summary' = result.store.last_review_summary
    /\ todo_resp' = result.resp
    /\ UNCHANGED <<today, mergeVars, loopVars, extVars>>

TodoInitCall == Respond(action_init(Store))

TodoStats == Respond(action_stats(Store))

TodoAdd(item_status, depends_on) ==
    /\ IdNumber(next_id(load_or_init_store(Store))) <= MaxTodoId
    /\ Respond(action_add(Store, item_status, depends_on))

TodoUpdate(id, patch) == Respond(action_update(Store, "update", id, patch))

TodoBulkUpdate(ids, patch) == Respond(action_bulk_update(Store, ids, patch))

TodoMove(id, item_status) == Respond(action_move(Store, id, item_status))

TodoDone(id) == Respond(action_done(Store, id))

TodoRemove(id) == Respond(action_remove(Store, id))

TodoBulkRemove(ids) == Respond(action_bulk_remove(Store, ids))

\* _action_archive: how its loop over the ids can end
ArchiveOutcomes(store, ids) ==
    IF archive_errors(load_or_init_store(store).items, ids) = {} THEN {"none"}
    ELSE archive_errors(load_or_init_store(store).items, ids)

TodoArchive(ids, filter) ==
    \E raised \in ArchiveOutcomes(Store, ids) :
        Respond(action_archive(Store, ids, filter, raised))

TodoReviewDaily == Respond(action_review_daily(Store, today))

\* Midnight passes.
NextDay ==
    /\ today < MaxDays
    /\ today' = today + 1
    /\ UNCHANGED <<todo_file, items, last_id, last_review_date, last_review_summary,
                   todo_resp, mergeVars, loopVars, extVars>>

\* todo.md is edited by hand and its data block no longer loads.
DamageFile ==
    /\ todo_file = "ok"
    /\ todo_file' = "broken"
    /\ UNCHANGED <<items, last_id, last_review_date, last_review_summary, today,
                   todo_resp, mergeVars, loopVars, extVars>>

\* The ids and the lists of ids the calls are tried with.
TodoIds == {TodoId(n) : n \in 1..MaxTodoId}
IdSets(most) == {ids \in SUBSET TodoIds : Cardinality(ids) <= most}

\* The calls that change items and their dependencies, on a store that
\* starts with no file.
TodoNext ==
    \/ \E item_status \in {"todo", "done"}, depends_on \in IdSets(1) :
            TodoAdd(item_status, depends_on)
    \/ \E id \in TodoIds, depends_on \in IdSets(2) :
            TodoUpdate(id, [depends_on |-> depends_on])
    \/ \E ids \in IdSets(2) \ {{}}, item_status \in {"doing", "done"} :
            TodoBulkUpdate(ids, [status |-> item_status])
    \/ \E id \in TodoIds, item_status \in {"todo", "archived"} :
            TodoMove(id, item_status)
    \/ \E id \in TodoIds : TodoDone(id)
    \/ \E id \in TodoIds : TodoRemove(id)
    \/ \E ids \in IdSets(2) \ {{}} : TodoBulkRemove(ids)
    \/ \E ids \in IdSets(2) \ {{}} : TodoArchive(ids, {})
    \/ \E filter \in IdSets(2) \ {{}} : TodoArchive({}, filter)

\* The calls that hand out and give up ids, and those that archive items.
TodoIdsNext ==
    \/ \E item_status \in {"todo", "done"}, depends_on \in IdSets(1) :
            TodoAdd(item_status, depends_on)
    \/ \E id \in TodoIds : TodoDone(id)
    \/ \E ids \in IdSets(1) \ {{}} : TodoArchive(ids, {})
    \/ \E id \in TodoIds : TodoRemove(id)
    \/ \E ids \in IdSets(2) \ {{}} : TodoBulkRemove(ids)

\* The calls that change the status of items, on items without
\* dependencies.
TodoStatusNext ==
    \/ \E item_status \in {"todo", "done", "archived"} : TodoAdd(item_status, {})
    \/ \E id \in TodoIds, item_status \in {"blocked", "done"} :
            TodoUpdate(id, [status |-> item_status])
    \/ \E ids \in IdSets(2) \ {{}}, item_status \in {"doing", "done"} :
            TodoBulkUpdate(ids, [status |-> item_status])
    \/ \E id \in TodoIds, item_status \in {"todo", "archived"} :
            TodoMove(id, item_status)
    \/ \E id \in TodoIds : TodoDone(id)
    \/ \E ids \in IdSets(2) \ {{}} : TodoArchive(ids, {})
    \/ \E filter \in IdSets(2) \ {{}} : TodoArchive({}, filter)

\* The daily review over the days, between calls that change the items.
TodoReviewNext ==
    \/ \E item_status \in {"todo", "done"} : TodoAdd(item_status, {})
    \/ \E id \in TodoIds : TodoDone(id)
    \/ \E id \in TodoIds : TodoRemove(id)
    \/ TodoReviewDaily
    \/ NextDay

\* Calls on a todo.md that can be damaged between them.
TodoFileNext ==
    \/ TodoInitCall
    \/ TodoStats
    \/ \E item_status \in {"todo", "done"} : TodoAdd(item_status, {})
    \/ \E id \in TodoIds : TodoDone(id)
    \/ \E id \in TodoIds : TodoRemove(id)
    \/ TodoReviewDaily
    \/ DamageFile

\* The LLM call a turn is suspended at returns or raises.
TurnStep ==
    \/ \E result \in TurnResults : ConsolidateDone(result)
    \/ \E response \in 0..1 : Chat(response, "text", "no")
    \/ Raise

\* run() with messages through the bus and process_direct, and stop().
StopNext ==
    \/ \E via \in {"run", "direct"} :
            ProcessMessage(Message(FALSE, "feishu:ou_test", via), FALSE)
    \/ ProcessHelp(PlainMessage)
    \/ TurnStep
    \/ Stop
    \/ RunExit

(***************************************************************************)
(* The cron tool: CronTool (agent/tools/cron.py)                           *)
(***************************************************************************)
\* add_job calls made in a run of the model.
MaxJobs == 2

\* An optional argument is the empty set when it is None, else {value}.
NotPassed == {}
IsGiven(arg) == arg # NotPassed
\* bool(arg) of an optional string
Truthy(arg) == arg # NotPassed /\ arg # {""}
ValueOf(arg) == CHOOSE v \in arg : TRUE

CRON_MODES == {"reminder", "task", "one_time"}

\* CronSchedule, with 0 and "" for the fields left at None; at_ms counts
\* from now_ms
CronSchedule(kind, every_ms, expr, at_ms) ==
    [kind |-> kind, every_ms |-> every_ms, expr |-> expr, at_ms |-> at_ms]

\* int(datetime.fromisoformat(at).timestamp() * 1000) - now_ms, or nothing
\* when fromisoformat raises ValueError
IsoTimes == {"2020-02-11T09:00:00", "2030-02-11T09:00:00"}
fromisoformat(at) ==
    IF at = "2020-02-11T09:00:00" THEN {-180000}
    ELSE IF at = "2030-02-11T09:00:00" THEN {180000}
    ELSE {}

\* sum(inputs) over a list of booleans
sum(inputs) == Cardinality({i \in DOMAIN inputs : inputs[i]})

AnyIgnored(inputs) == FALSE
\* any(inputs)
any(inputs) == \E i \in DOMAIN inputs : inputs[i]

NoContext == [channel |-> "", chat_id |-> ""]

\* The keyword arguments of self._cron.add_job(...)
AddCall(context, message, mode, schedule, delete_after_run) ==
    [name |-> message, schedule |-> schedule, message |-> message,
     payload_kind |-> IF mode = "task" THEN "agent_turn" ELSE "system_event",
     deliver |-> TRUE, channel |-> context.channel, to |-> context.chat_id,
     delete_after_run |-> delete_after_run]

CronErrors ==
    {"Error: message is required for add",
     "Error: no session context (channel/chat_id)",
     "Error: mode must be 'reminder', 'task', or 'one_time'",
     "Error: reminder/task mode requires exactly one of every_seconds or cron_expr",
     "Error: reminder/task mode does not allow in_seconds or at",
     "Error: every_seconds must be > 0",
     "Error: one_time mode requires exactly one of in_seconds or at",
     "Error: one_time mode does not allow every_seconds or cron_expr",
     "Error: in_seconds must be > 0",
     "Error: at must be an ISO datetime like 2026-02-11T09:00:00",
     "Error: at must be in the future"}

\* CronTool._add_job: what it returns and the add_job calls made so far
\* once it returns.
add_job(context, calls, message, mode, every_seconds, cron_expr, in_seconds, at) ==
    LET periodic_inputs == <<IsGiven(every_seconds), Truthy(cron_expr)>>
        one_time_inputs == <<IsGiven(in_seconds), Truthy(at)>>
        Refused(text) == [result |-> text, add_calls |-> calls]
        Created(schedule, delete_after_run) ==
            [result |-> IF mode = "one_time" THEN "Created one-time job"
                        ELSE "Created recurring job",
             add_calls |-> Append(calls, AddCall(context, message, mode, schedule,
                                                 delete_after_run))]
        dt == fromisoformat(IF at = NotPassed THEN "" ELSE ValueOf(at))
    IN  IF message = "" THEN Refused("Error: message is required for add")
        ELSE IF context.channel = "" \/ context.chat_id = ""
        THEN Refused("Error: no session context (channel/chat_id)")
        ELSE IF mode \notin CRON_MODES
        THEN Refused("Error: mode must be 'reminder', 'task', or 'one_time'")
        ELSE IF mode \in {"reminder", "task"}
        THEN IF sum(periodic_inputs) # 1
             THEN Refused("Error: reminder/task mode requires exactly one of every_seconds or cron_expr")
             ELSE IF any(one_time_inputs)
             THEN Refused("Error: reminder/task mode does not allow in_seconds or at")
             ELSE IF IsGiven(every_seconds)
             THEN IF ValueOf(every_seconds) <= 0
                  THEN Refused("Error: every_seconds must be > 0")
                  ELSE Created(CronSchedule("every", ValueOf(every_seconds) * 1000, "", 0),
                               FALSE)
             ELSE Created(CronSchedule("cron", 0, ValueOf(cron_expr), 0), FALSE)
        ELSE IF sum(one_time_inputs) # 1
             THEN Refused("Error: one_time mode requires exactly one of in_seconds or at")
             ELSE IF any(periodic_inputs)
             THEN Refused("Error: one_time mode does not allow every_seconds or cron_expr")
             ELSE IF IsGiven(in_seconds)
             THEN IF ValueOf(in_seconds) <= 0
                  THEN Refused("Error: in_seconds must be > 0")
                  ELSE Created(CronSchedule("at", 0, "", ValueOf(in_seconds) * 1000), TRUE)
             ELSE IF dt = {}
             THEN Refused("Error: at must be an ISO datetime like 2026-02-11T09:00:00")
             ELSE IF ValueOf(dt) <= 0
             THEN Refused("Error: at must be in the future")
             ELSE Created(CronSchedule("at", 0, "", ValueOf(dt)), TRUE)

NoDispatch == [kind |-> "none", tool_name |-> {}, tool_args |-> {}, executed |-> <<>>,
               turns |-> 0, result |-> ""]

CronInit ==
    /\ cron_context = NoContext
    /\ add_calls = <<>>
    /\ cron_result = ""
    /\ dispatched = NoDispatch

\* CronTool.set_context
set_context(channel, chat_id) ==
    /\ cron_context' = [channel |-> channel, chat_id |-> chat_id]
    /\ UNCHANGED <<add_calls, cron_result, dispatched, mergeVars, loopVars,
                   todoVars, redactVars,
                   callVars>>

\* CronTool.execute(action="add", ...)
CronAdd(message, mode, every_seconds, cron_expr, in_seconds, at) ==
    LET done == add_job(cron_context, add_calls, message, mode, every_seconds,
                        cron_expr, in_seconds, at)
    IN  /\ Len(done.add_calls) <= MaxJobs
        /\ cron_result' = done.result
        /\ add_calls' = done.add_calls
        /\ UNCHANGED <<cron_context, dispatched, mergeVars, loopVars, todoVars, redactVars,
                   callVars>>

\* The arguments the tool is tried with.
OptionalSeconds == {NotPassed, {0}, {60}}
OptionalExprs == {NotPassed, {""}, {"0 9 * * *"}}
OptionalTimes == {NotPassed, {"tomorrow"}} \cup {{at} : at \in IsoTimes}

CronCalls ==
    [message : {"", "Drink water"}, mode : CRON_MODES \cup {"unknown"},
     every_seconds : OptionalSeconds, cron_expr : OptionalExprs,
     in_seconds : OptionalSeconds, at : OptionalTimes]

CronToolNext ==
    \/ \E channel \in {"", "feishu"} : set_context(channel, "ou_test")
    \/ \E c \in CronCalls :
            CronAdd(c.message, c.mode, c.every_seconds, c.cron_expr, c.in_seconds, c.at)

(***************************************************************************)
(* SensitiveOutputRedactor (utils/redaction.py). A text is a sequence of   *)
(* pieces standing for what the patterns tell apart: a secret key with its *)
(* separator, a plain word, a configured literal secret, a blank, and the  *)
(* two parts of the secret placeholder, the closing bracket being the one  *)
(* character of it that a value pattern does not accept.                   *)
(***************************************************************************)
\* Pieces in a text handed to redact.
MaxText == 3

TextPieces == {"token:", "abc123", "s3cr3t-value", " ", "[REDACTED_SECRET", "]"}
SECRET_PLACEHOLDER == <<"[REDACTED_SECRET", "]">>

\* The value class of _KV_SECRET_RE, [^"'\s,}\]]
IsValuePiece(piece) == piece \notin {" ", "]"}

\* The length of the longest prefix of the text made of pieces in the set
RECURSIVE Run(_, _)
Run(text, pieces) ==
    IF text # <<>> /\ Head(text) \in pieces THEN 1 + Run(Tail(text), pieces) ELSE 0

\* _replace_literals for literals of one piece each: str.replace of every
\* occurrence
RECURSIVE replace_literals(_, _, _)
replace_literals(text, values, placeholder) ==
    IF text = <<>> THEN <<>>
    ELSE (IF Head(text) \in values THEN placeholder ELSE <<Head(text)>>)
         \o replace_literals(Tail(text), values, placeholder)

\* _KV_SECRET_RE.sub(r"\1[REDACTED_SECRET]", text): from the left, each key
\* with its separator, followed by blanks or not and then by at least one
\* value character, keeps key and blanks and has the longest run of value
\* characters replaced by the placeholder.
RECURSIVE kv_secret_sub(_)
kv_secret_sub(text) ==
    IF text = <<>> THEN <<>>
    ELSE LET rest == Tail(text)
             blanks == Run(rest, {" "})
             value == Run(SubSeq(rest, blanks + 1, Len(rest)),
                          {p \in TextPieces : IsValuePiece(p)})
         IN  IF Head(text) = "token:" /\ value > 0
             THEN <<"token:">> \o SubSeq(rest, 1, blanks) \o SECRET_PLACEHOLDER
                  \o kv_secret_sub(SubSeq(rest, blanks + value + 1, Len(rest)))
             ELSE <<Head(text)>> \o kv_secret_sub(rest)

\* SensitiveOutputRedactor.redact, for the passes that match something in
\* these texts: the literal secrets, then the key-value secrets.
redact(redactor_, text) ==
    IF ~redactor_.enabled \/ text = <<>> THEN text
    ELSE kv_secret_sub(replace_literals(text, redactor_.literal_secrets,
                                        SECRET_PLACEHOLDER))

\* SensitiveOutputRedactor(enabled, extra_secrets): _add_extra_secrets keeps
\* the values of six characters and more.
Redactors ==
    [enabled : BOOLEAN, literal_secrets : {{}, {"s3cr3t-value"}}]

RECURSIVE TextsOf(_)
TextsOf(n) ==
    IF n = 0 THEN {<<>>}
    ELSE LET shorter == TextsOf(n - 1)
         IN  shorter \cup {Append(t, p) : t \in shorter, p \in TextPieces}

RedactInit ==
    /\ redactor = [enabled |-> TRUE, literal_secrets |-> {}]
    /\ redact_in = <<>>
    /\ redact_out = <<>>

\* redact is applied to the text, then to what it returned.
Redact ==
    /\ Len(redact_out) < 2
    /\ redact_out' = Append(redact_out,
                            redact(redactor, IF redact_out = <<>> THEN redact_in
                                             ELSE redact_out[Len(redact_out)]))
    /\ UNCHANGED <<redactor, redact_in, cronVars, mergeVars, loopVars, todoVars,
                   callVars>>

(***************************************************************************)
(* Codex merge: calls that overlap. _revise_plan and _execute_merge await  *)
(* the Codex run between MergePlanStore.load and MergePlanStore.save, and  *)
(* nothing keeps a second call from starting meanwhile (two sessions, or a *)
(* cron tool_call job next to a turn).                                     *)
(***************************************************************************)
\* Calls suspended at their Codex run at the same time.
MaxCalls == 2

CallSlots == 1..MaxCalls

NoPending == [action |-> "none", plan_id |-> 0, token |-> NoToken,
              record |-> [status |-> "none", confirmation_token_hash |-> NoHash,
                          revision |-> 0, execution |-> "None"]]

CallsInit ==
    /\ pending = [slot \in CallSlots |-> NoPending]
    /\ executions = [token \in Tokens |-> 0]
    /\ partial = {}

\* MergePlanStore.load: None for a file that is missing or does not parse.
Loads(plan_id) == plan_id \in DOMAIN plans /\ plan_id \notin partial

\* _revise_plan up to its await of self._plan_client.run: the checks have
\* passed and the record is loaded.
revise_plan_begin(slot, plan_id) ==
    /\ pending[slot] = NoPending
    /\ config.enabled
    /\ Loads(plan_id)
    /\ reportExists
    /\ pending' = [pending EXCEPT ![slot] =
                      [action |-> "revise_plan", plan_id |-> plan_id, token |-> NoToken,
                       record |-> plans[plan_id]]]
    /\ UNCHANGED <<executions, partial, mergeVars, loopVars, todoVars, cronVars,
                   redactVars>>

\* _execute_merge up to its await of self._exec_client.run.
execute_merge_begin(slot, plan_id, confirmation_token) ==
    /\ pending[slot] = NoPending
    /\ config.enabled
    /\ config.allow_dangerous_full_access
    /\ Strip(confirmation_token) # NoToken
    /\ Loads(plan_id)
    /\ TokenAccepted(plans[plan_id], Strip(confirmation_token))
    /\ reportExists
    /\ pending' = [pending EXCEPT ![slot] =
                      [action |-> "execute_merge", plan_id |-> plan_id,
                       token |-> Strip(confirmation_token), record |-> plans[plan_id]]]
    /\ UNCHANGED <<executions, partial, mergeVars, loopVars, todoVars, cronVars,
                   redactVars>>

\* MergePlanStore.save with path.write_text, which truncates the file and
\* then writes: a process that dies in between leaves a file that is neither
\* the old record nor the new one, and takes the suspended calls with it.
save(slot, plan_id, record, crash) ==
    IF crash
    THEN /\ partial' = partial \cup {plan_id}
         /\ pending' = [s \in CallSlots |-> NoPending]
         /\ UNCHANGED <<plans, order>>
    ELSE /\ plans' = [plans EXCEPT ![plan_id] = record]
         /\ order' = Saved(plan_id)
         /\ pending' = [pending EXCEPT ![slot] = NoPending]
         /\ UNCHANGED partial

\* _revise_plan from the return of the Codex run on: it changes and saves
\* the record it loaded before the run.
revise_plan_end(slot, env, crash) ==
    LET p == pending[slot]
        run == ClientRun("plan", PlanConfig(config), MergeRequest("read-only", TRUE), env)
        confirmation_token == nextToken
        record == RevisedRecord(p.record, confirmation_token)
    IN  /\ p.action = "revise_plan"
        /\ call' = [NoCall EXCEPT !.action = "revise_plan", !.plan_id = p.plan_id]
        /\ lastRun' = run
        /\ IF run.code # "ok"
           THEN /\ ~crash
                /\ resp' = Response("revise_plan", FALSE, run.code, p.plan_id,
                                    NoToken, "none", <<>>)
                /\ pending' = [pending EXCEPT ![slot] = NoPending]
                /\ UNCHANGED <<plans, order, nextToken, issued, partial>>
           ELSE /\ nextToken <= MaxTokens
                /\ save(slot, p.plan_id, record, crash)
                /\ nextToken' = nextToken + 1
                /\ issued' = IF crash THEN issued
                             ELSE [issued EXCEPT ![p.plan_id] =
                                      Append(@, confirmation_token)]
                /\ resp' = IF crash THEN resp
                           ELSE Response("revise_plan", TRUE, "none", p.plan_id,
                                         confirmation_token, record.status, <<>>)
        /\ UNCHANGED <<config, reportExists, spent, executions, loopVars, todoVars,
                       cronVars, redactVars>>

\* _execute_merge from the return of the Codex run on.
execute_merge_end(slot, env, crash) ==
    LET p == pending[slot]
        run == ClientRun("exec", config, MergeRequest("danger-full-access", TRUE), env)
        record == IF run.code = "ok" THEN ExecutedRecord(p.record)
                  ELSE FailedRecord(p.record)
    IN  /\ p.action = "execute_merge"
        /\ run.code = "ok" => executions[p.token] < MaxCalls
        /\ call' = [NoCall EXCEPT !.action = "execute_merge", !.plan_id = p.plan_id,
                                  !.token = [t |-> p.token, pad |-> FALSE]]
        /\ lastRun' = run
        /\ save(slot, p.plan_id, record, crash)
        /\ executions' = IF run.code = "ok"
                         THEN [executions EXCEPT ![p.token] = @ + 1]
                         ELSE executions
        /\ spent' = IF run.code = "ok" THEN spent \cup {p.token} ELSE spent
        /\ resp' = IF crash THEN resp
                   ELSE Response("execute_merge", run.code = "ok",
                                 IF run.code = "ok" THEN "none" ELSE run.code,
                                 p.plan_id, NoToken, record.status, <<>>)
        /\ UNCHANGED <<config, reportExists, nextToken, issued, loopVars, todoVars,
                       cronVars, redactVars>>

\* Plans are made, revised and executed by calls that overlap; the process
\* may die while it saves.
CallsNext ==
    \/ WriteReport
    \/ plan_latest
    \/ \E slot \in CallSlots, plan_id \in PlanIds : revise_plan_begin(slot, plan_id)
    \/ \E slot \in CallSlots, plan_id \in PlanIds, token \in Tokens :
            execute_merge_begin(slot, plan_id, [t |-> token, pad |-> FALSE])
    \/ \E slot \in CallSlots, env \in EnvOutcomes, crash \in BOOLEAN :
            revise_plan_end(slot, env, crash)
    \/ \E slot \in CallSlots, env \in EnvOutcomes, crash \in BOOLEAN :
            execute_merge_end(slot, env, crash)

(***************************************************************************)
(* Specifications                                                          *)
(***************************************************************************)
ExtInit == CronInit /\ RedactInit /\ CallsInit

Init == MergeInit /\ LoopInit /\ TodoInit /\ ExtInit /\ ~mcp.servers
Next == CodexNext \/ LoopNext
Spec == Init /\ [][Next]_vars

\* The codex tools alone, the agent loop at rest.
InitCodex == MergeInit /\ LoopInit /\ TodoInit /\ ExtInit /\ ~mcp.servers
SpecCodex == InitCodex /\ [][CodexNext]_vars

\* codex_merge alone. It reads enabled and allow_dangerous_full_access only:
\* its planning runs ask for read-only with full access switched off, its
\* execution asks for danger-full-access, so the other two settings are fixed.
InitMerge ==
    /\ MergeInit
    /\ ~config.allow_workspace_write
    /\ config.default_sandbox = "read-only"
    /\ LoopInit
    /\ ExtInit
    /\ TodoInit
    /\ ~mcp.servers
SpecMerge == InitMerge /\ [][MergeNext]_vars

\* The agent loop alone, with the codex tools unused.
InitLoop ==
    /\ MergeInit
    /\ config = [enabled |-> FALSE, allow_dangerous_full_access |-> FALSE,
                 allow_workspace_write |-> FALSE, default_sandbox |-> "read-only"]
    /\ LoopInit
    /\ ExtInit
    /\ TodoInit
    /\ ~mcp.servers
SpecLoop == InitLoop /\ [][LoopNext]_vars

\* The agent loop alone, seen for its memory consolidation.
SpecMemory == InitLoop /\ [][MemoryNext]_vars

\* The same with process_direct calls that overlap a turn of the session.
OverlapNext ==
    \/ MemoryNext
    \/ DirectNewDuringTurn
SpecOverlap == InitLoop /\ [][OverlapNext]_vars

\* The agent loop alone, seen for its image carry-over.
SpecImage == InitLoop /\ [][ImageNext]_vars

\* The agent loop alone, seen for what it puts on the bus.
SpecOutbound == InitLoop /\ [][OutboundNext]_vars

\* The agent loop alone, seen for the errors run() meets.
SpecRun == InitLoop /\ [][RunNext]_vars

\* run() and stop(): every wait_for of run() times out and every LLM call
\* returns or raises.
SpecStop == InitLoop /\ [][StopNext]_vars /\ WF_vars(RunExit) /\ WF_vars(TurnStep)

\* The todo tool alone.
InitTodo ==
    /\ MergeInit
    /\ config = [enabled |-> FALSE, allow_dangerous_full_access |-> FALSE,
                 allow_workspace_write |-> FALSE, default_sandbox |-> "read-only"]
    /\ LoopInit
    /\ ExtInit
    /\ TodoInit
    /\ ~mcp.servers
SpecTodo == InitTodo /\ [][TodoNext]_vars

\* The todo tool alone, on no file or on a file written by hand (or restored
\* from an older copy), whose last_id is behind the ids of its items.
HandWritten(n, last) ==
    [create_default_store EXCEPT !.items = <<TodoItem(TodoId(n), "todo", {}, FALSE)>>,
                                 !.last_id = last]
InitTodoIds ==
    /\ MergeInit
    /\ config = [enabled |-> FALSE, allow_dangerous_full_access |-> FALSE,
                 allow_workspace_write |-> FALSE, default_sandbox |-> "read-only"]
    /\ LoopInit
    /\ ExtInit
    /\ ~mcp.servers
    /\ today = 1
    /\ todo_resp = NoResp
    /\ \E st \in {[create_default_store EXCEPT !.file = "missing"]}
                    \cup {HandWritten(n, last) : n \in 1..2, last \in 0..1} :
        /\ todo_file = st.file
        /\ items = st.items
        /\ last_id = st.last_id
        /\ last_review_date = st.last_review_date
        /\ last_review_summary = st.last_review_summary
SpecTodoIds == InitTodoIds /\ [][TodoIdsNext]_vars

\* The todo tool alone, seen for the status of its items.
SpecTodoStatus == InitTodo /\ [][TodoStatusNext]_vars

\* The todo tool alone, seen for its daily review.
SpecTodoReview == InitTodo /\ [][TodoReviewNext]_vars

\* The todo tool alone, on a file that may stop loading.
SpecTodoFile == InitTodo /\ [][TodoFileNext]_vars

\* The redactor alone, in every configuration and on every text.
InitRedact ==
    /\ MergeInit
    /\ config = [enabled |-> FALSE, allow_dangerous_full_access |-> FALSE,
                 allow_workspace_write |-> FALSE, default_sandbox |-> "read-only"]
    /\ LoopInit
    /\ TodoInit
    /\ CronInit
    /\ CallsInit
    /\ ~mcp.servers
    /\ redactor \in Redactors
    /\ redact_in \in TextsOf(MaxText)
    /\ redact_out = <<>>
SpecRedact == InitRedact /\ [][Redact]_vars

\* codex_merge with overlapping calls, the tool enabled and full access
\* allowed.
InitCalls ==
    /\ MergeInit
    /\ config = [enabled |-> TRUE, allow_dangerous_full_access |-> TRUE,
                 allow_workspace_write |-> FALSE, default_sandbox |-> "read-only"]
    /\ LoopInit
    /\ TodoInit
    /\ ExtInit
    /\ ~mcp.servers
SpecCalls == InitCalls /\ [][CallsNext]_vars

\* The cron tool alone.
InitCron == InitLoop
SpecCron == InitCron /\ [][CronToolNext]_vars

\* The agent loop alone, with MCP servers configured.
InitMcp ==
    /\ MergeInit
    /\ config = [enabled |-> FALSE, allow_dangerous_full_access |-> FALSE,
                 allow_workspace_write |-> FALSE, default_sandbox |-> "read-only"]
    /\ LoopInit
    /\ ExtInit
    /\ TodoInit
    /\ mcp.servers
SpecMcp == InitMcp /\ [][McpNext]_vars

\* The cron dispatcher alone, on an agent with MCP servers configured.
SpecDispatch == InitMcp /\ [][DispatchNext]_vars

(***************************************************************************)
(* Claims: codex merge (checked under SpecMerge, C7 under SpecCodex)       *)
(***************************************************************************)
\* The step is a call of the named tool action.
IsCall(action) ==
    call'.action = action /\ reportExists' = reportExists /\ UNCHANGED loopVars

\* The call reached neither the Codex client nor the store.
Untouched == lastRun'.runs = 0 /\ plans' = plans /\ order' = order

\* C2: execute_merge without a confirmation token returns
\* missing_confirmation_token, and with a token whose SHA-256 (of the trimmed
\* text, as the code compares it) differs from the plan's stored hash returns
\* invalid_confirmation_token; in both cases Codex is not invoked and the
\* stored plan record is unchanged. (The tool is enabled, full access is
\* allowed and a plan_id is given: the checks made before the token's.)
C2_MissingOrInvalidTokenRejected ==
    [][(/\ IsCall("execute_merge")
        /\ config.enabled /\ config.allow_dangerous_full_access
        /\ call'.plan_id # 0)
       => /\ Strip(call'.token) = NoToken
              => resp'.code = "missing_confirmation_token" /\ Untouched
          /\ (/\ Strip(call'.token) # NoToken
              /\ call'.plan_id \in DOMAIN plans
              /\ HashToken(Strip(call'.token))
                    # plans[call'.plan_id].confirmation_token_hash)
              => resp'.code = "invalid_confirmation_token" /\ Untouched]_vars

\* A wrong token was presented for a plan whose token is still live, and one
\* call came without a token.
C2_Witness ==
    /\ call.action = "execute_merge"
    /\ call.plan_id \in DOMAIN plans
    /\ plans[call.plan_id].confirmation_token_hash # NoHash
    /\ Strip(call.token) # NoToken
    /\ resp.code = "invalid_confirmation_token"

\* C3: a correct token yields exactly one Codex invocation: after
\* execute_merge succeeds the plan is executed and its confirmation hash is
\* cleared, and every later execute_merge on that plan with the same token is
\* rejected with invalid_confirmation_token without invoking Codex.
C3_TokenSingleUse ==
    [][IsCall("execute_merge")
       => /\ resp'.ok
              => /\ lastRun'.runs = 1
                 /\ call'.plan_id \in DOMAIN plans
                 /\ TokenAccepted(plans[call'.plan_id], Strip(call'.token))
                 /\ plans'[call'.plan_id].status = "executed"
                 /\ plans'[call'.plan_id].confirmation_token_hash = NoHash
          /\ Strip(call'.token) \in spent
              => /\ ~resp'.ok
                 /\ Untouched
                 /\ call'.plan_id \in DOMAIN plans
                        => resp'.code = "invalid_confirmation_token"]_vars

\* The token of a successful execute_merge was presented again for its plan.
C3_Witness ==
    /\ call.action = "execute_merge"
    /\ Strip(call.token) \in spent
    /\ call.plan_id \in DOMAIN plans
    /\ plans[call.plan_id].status = "executed"
    /\ resp.code = "invalid_confirmation_token"

\* C4: when the Codex run inside execute_merge fails, the plan is marked
\* failed, the failed execution result is recorded, and the stored
\* confirmation hash is preserved unchanged.
C4_FailedRunKeepsHash ==
    [][(IsCall("execute_merge") /\ lastRun'.runs = 1 /\ lastRun'.code # "ok")
       => /\ plans'[call'.plan_id].status = "failed"
          /\ plans'[call'.plan_id].execution = "error"
          /\ plans'[call'.plan_id].confirmation_token_hash
                = plans[call'.plan_id].confirmation_token_hash
          /\ plans'[call'.plan_id].confirmation_token_hash
                = HashToken(Strip(call'.token))
          /\ ~resp'.ok /\ resp'.status = "failed"]_vars

\* The Codex process of an execute_merge ran and failed.
C4_Witness ==
    /\ call.action = "execute_merge"
    /\ lastRun.runs = 1 /\ lastRun.spawned /\ lastRun.code = "codex_failed"
    /\ plans[call.plan_id].status = "failed"

\* C5: a plan's status only moves along planned -> revised* -> executed |
\* failed: once it is executed or failed, no operation sets it back to
\* planned or revised.
C5_TerminalStatusStays ==
    [][\A p \in DOMAIN plans :
          plans[p].status \in {"executed", "failed"}
              => plans'[p].status \notin {"planned", "revised"}]_vars

\* C6: a successful revise_plan increments the revision by one and rotates
\* the confirmation token: afterwards execute_merge accepts only the newly
\* returned token, and every token issued earlier for that plan is rejected
\* with invalid_confirmation_token. (The tool is enabled and full access is
\* allowed: the checks execute_merge makes before the token's.)
IssuedBefore == UNION {{issued[p][i] : i \in DOMAIN issued[p]} : p \in DOMAIN issued}
Earlier(p) == {issued[p][i] : i \in 1..(Len(issued[p]) - 1)}
ClientConfig == IF lastRun.client = "plan" THEN PlanConfig(config) ELSE config
\* run() got as far as its sandbox policy.
ReachedPolicy ==
    /\ lastRun.runs = 1
    /\ lastRun.code \notin {"invalid_mode", "invalid_prompt", "invalid_working_dir",
                            "invalid_sandbox"}
StartedOnlyIfAllowed ==
    /\ (lastRun.spawned /\ lastRun.effective = "danger-full-access")
          => ClientConfig.allow_dangerous_full_access
    /\ (lastRun.spawned /\ lastRun.effective = "workspace-write")
          => ClientConfig.allow_workspace_write
ExecuteMergeNeedsGlobalAllow ==
    (call.action = "execute_merge" /\ config.enabled
        /\ ~config.allow_dangerous_full_access)
       => resp.code = "dangerous_full_access_not_allowed" /\ lastRun.runs = 0

\* C7 as stated: Codex is started with danger-full-access only if
\* allowDangerousFullAccess, with workspace-write only if allowWorkspaceWrite;
\* a request for a sandbox that is not allowed returns
\* dangerous_full_access_not_allowed or workspace_write_not_allowed without
\* starting a process; execute_merge returns
\* dangerous_full_access_not_allowed before running anything when the global
\* allow is off.
C7_Original ==
    /\ StartedOnlyIfAllowed
    /\ (ReachedPolicy /\ lastRun.requested = "danger-full-access"
            /\ ~ClientConfig.allow_dangerous_full_access)
          => lastRun.code = "dangerous_full_access_not_allowed" /\ ~lastRun.spawned
    /\ (ReachedPolicy /\ lastRun.requested = "workspace-write"
            /\ ~ClientConfig.allow_workspace_write)
          => lastRun.code = "workspace_write_not_allowed" /\ ~lastRun.spawned
    /\ ExecuteMergeNeedsGlobalAllow

\* C7 amended: as stated, except that workspace_write_not_allowed is returned
\* only while allowDangerousFullAccess is off; with it on, every run is forced
\* to danger-full-access whatever sandbox was requested, workspace-write with
\* allowWorkspaceWrite off included.
C7_SandboxPolicy ==
    /\ StartedOnlyIfAllowed
    /\ (ReachedPolicy /\ lastRun.requested = "danger-full-access"
            /\ ~ClientConfig.allow_dangerous_full_access)
          => lastRun.code = "dangerous_full_access_not_allowed" /\ ~lastRun.spawned
    /\ (ReachedPolicy /\ lastRun.requested = "workspace-write"
            /\ ~ClientConfig.allow_workspace_write
            /\ ~ClientConfig.allow_dangerous_full_access)
          => lastRun.code = "workspace_write_not_allowed" /\ ~lastRun.spawned
    /\ (lastRun.spawned /\ ClientConfig.allow_dangerous_full_access)
          => lastRun.effective = "danger-full-access"
    /\ ExecuteMergeNeedsGlobalAllow

\* workspace-write was requested with allowWorkspaceWrite off and the global
\* allow on: Codex ran with full access.
C7_Witness ==
    /\ lastRun.requested = "workspace-write"
    /\ ~config.allow_workspace_write
    /\ lastRun.spawned
    /\ lastRun.effective = "danger-full-access"

\* C8: the plaintext confirmation token appears only in the response of the
\* plan_latest or revise_plan call that minted it: the persisted record holds
\* only its SHA-256 hash, and the responses of status, list and execute_merge
\* contain neither the token nor its hash.
StoredOnlyHashed ==
    \A p \in DOMAIN plans :
        /\ plans[p].confirmation_token_hash \notin Tokens
        /\ "confirmation_token" \notin DOMAIN plans[p]
        /\ plans[p].confirmation_token_hash # NoHash
              => \E t \in Tokens : plans[p].confirmation_token_hash = HashToken(t)
NoCredentialInResponse ==
    resp.action \in {"status", "list", "execute_merge"}
       => /\ resp.confirmation_token = NoToken
          /\ \A i \in DOMAIN resp.plans :
                DOMAIN resp.plans[i] \cap {"confirmation_token", "confirmation_token_hash"} = {}
C8_TokenOnlyInMintingResponse ==
    /\ [](StoredOnlyHashed /\ NoCredentialInResponse)
    /\ [][(resp'.confirmation_token # NoToken /\ resp' # resp)
          => /\ call'.action \in {"plan_latest", "revise_plan"}
             /\ resp'.confirmation_token = nextToken
             /\ nextToken' = nextToken + 1
             /\ plans'[resp'.plan_id].confirmation_token_hash
                    = HashToken(resp'.confirmation_token)]_vars

\* status answered for a plan whose token is live.
C8_Witness ==
    /\ resp.action = "status" /\ resp.ok
    /\ plans[call.plan_id].confirmation_token_hash # NoHash
    /\ Len(resp.plans) = 1

(***************************************************************************)
(* Claims: agent loop (checked under SpecLoop)                             *)
(***************************************************************************)
\* C1: when /new is processed and archiving the session's messages fails,
\* the session's message list is left unchanged (not cleared) and the reply
\* is an error rather than a new-session confirmation.
C1_NewKeepsSessionWhenArchivalFails ==
    lastNew.archive = "failed"
       => /\ ~lastNew.cleared
          /\ lastNew.reply # "New session started. Memory consolidation in progress."

RECURSIVE SumSeq(_)
SumSeq(seq) == IF seq = <<>> THEN 0 ELSE Head(seq) + SumSeq(Tail(seq))

MaxIterationsNotice == "Reached max_iterations iterations without completion."

\* C9: with an LLM that returns tool calls on every response, a turn makes
\* exactly max_iterations LLM calls and then stops: the reply is the fixed
\* max-iterations notice and tools_used has one name per tool call, so length
\* max_iterations with one tool call per response.
C9_IterationBound ==
    (/\ lastTurn.responses # <<>>
     /\ \A i \in DOMAIN lastTurn.responses : lastTurn.responses[i] > 0)
       => /\ Len(lastTurn.responses) = max_iterations
          /\ reply = MaxIterationsNotice
          /\ lastTurn.tools_used = SumSeq(lastTurn.responses)
          /\ (\A i \in DOMAIN lastTurn.responses : lastTurn.responses[i] = 1)
                => lastTurn.tools_used = max_iterations

\* A finished turn in which every response carried exactly one tool call.
C9_Witness ==
    /\ pc = "idle"
    /\ lastTurn.responses = [i \in 1..max_iterations |-> 1]
    /\ reply = MaxIterationsNotice

\* C10: after a turn in which the model first returns tool calls and then a
\* final text, the session gains, in this order, the user message, the
\* assistant message carrying the tool calls, one tool-result message per
\* tool call, and the final assistant message.
Roles(entries) == [i \in DOMAIN entries |-> entries[i].role]
C10_SessionGainsToolMessages ==
    \A n \in 1..MaxToolCalls :
        lastTurn.responses = <<n, 0>>
           => /\ Roles(lastTurn.gained)
                    = <<"user", "assistant">> \o [k \in 1..n |-> "tool"] \o <<"assistant">>
              /\ lastTurn.gained[2].tool_calls = n

(***************************************************************************)
(* Claims: memory consolidation (checked under SpecMemory)                 *)
(***************************************************************************)
\* The step takes a non-slash message from rest to its first await.
TurnStarts == pc = "idle" /\ pc' \in {"consolidate", "chat"}

\* C11: before a non-slash inbound message is processed, memory
\* consolidation is started exactly when len(messages) - last_consolidated
\* >= memory_window and no consolidation is in flight for the session key; it
\* is not started when fewer than memory_window messages lie past
\* last_consolidated.
C11_ConsolidationTrigger ==
    [][TurnStarts
       => (pc' = "consolidate"
              <=> (/\ Len(messages) - last_consolidated >= memory_window
                   /\ ~consolidating))]_vars

\* C12 as stated: if the consolidation LLM response cannot be parsed as a
\* JSON object, or its history_entry or memory_update value is not a string,
\* consolidation writes nothing to HISTORY.md or MEMORY.md and leaves the
\* session's messages and last_consolidated unchanged.
ParseOrTypeFailure(result) ==
    \/ result.kind \in {"exception", "empty", "not_dict"}
    \/ result.kind = "dict" /\ (result.entry = "obj" \/ result.update = "obj")
ConsolidationEnds ==
    /\ pc = "consolidate" /\ pc' # "consolidate"
    /\ memlog'.who = "turn"
C13_OffsetWithinMessages ==
    0 <= last_consolidated /\ last_consolidated <= Len(messages)

\* The consolidations running for the session key: the one a turn awaits
\* and the archival tasks of /new.
RunningConsolidations == Len(archives) + (IF pc = "consolidate" THEN 1 ELSE 0)

\* C14: for any interleaving of inbound turns, /new commands and
\* process_direct calls, at most one memory consolidation is running for a
\* given session key at any time.
C14_OneConsolidationPerKey == RunningConsolidations <= 1

(***************************************************************************)
(* Claims: image carry-over (checked under SpecImage)                      *)
(***************************************************************************)
\* C15 as stated: if a turn's inbound message carries an image and the
\* following turns of the session carry none, the image is in the composed
\* user content of exactly the next two turns and not in the third.
C15_Original ==
    \A i \in DOMAIN imglog.followups :
        imglog.followups[i].included <=> i <= RECENT_IMAGE_FOLLOWUP_TURNS

\* C15: after a turn whose message carries an image, a following turn
\* without one has the image in its composed user content exactly if it is
\* the first or second such turn and the file was still a readable image
\* when each follow-up so far was composed; the third has it never.
C15_ImageCarriedTwoTurns ==
    \A i \in DOMAIN imglog.followups :
        imglog.followups[i].included
            <=> /\ i <= RECENT_IMAGE_FOLLOWUP_TURNS
                /\ \A j \in 1..i : imglog.followups[j].file

C15_Witness ==
    /\ Len(imglog.followups) = RECENT_IMAGE_FOLLOWUP_TURNS + 1
    /\ \A i \in 1..RECENT_IMAGE_FOLLOWUP_TURNS : imglog.followups[i].included
    /\ ~imglog.followups[RECENT_IMAGE_FOLLOWUP_TURNS + 1].included
    /\ pc = "idle"

(***************************************************************************)
(* Claims: tool calls and outbound messages (checked under SpecLoop)       *)
(***************************************************************************)
\* The result messages of n tool calls, in the order the model returned them.
ToolResultsInOrder(n) == [k \in 1..n |-> Entry("tool", 0, FALSE, k)]

\* The step gets a response with tool calls and the loop goes on to its next
\* LLM call.
ToolCallsThenNextChat ==
    /\ pc = "chat" /\ pc' = "chat"
    /\ Len(respLog') = Len(respLog) + 1
    /\ respLog'[Len(respLog')] > 0

\* C16: the tool calls of one model response are executed one at a time in
\* the order returned, each result appended to the conversation before the
\* next tool call starts: when the next LLM call is made the conversation
\* has gained the assistant message and then the results of calls 1..n in
\* that order, and wherever the loop stands every assistant message with n
\* tool calls is followed by exactly these n results.
C16_ToolCallsInOrder ==
    /\ [](\A i \in DOMAIN ctx :
            (ctx[i].role = "assistant" /\ ctx[i].tool_calls > 0)
                => /\ i + ctx[i].tool_calls <= Len(ctx)
                   /\ SubSeq(ctx, i + 1, i + ctx[i].tool_calls)
                          = ToolResultsInOrder(ctx[i].tool_calls))
    /\ [][ToolCallsThenNextChat
            => LET n == respLog'[Len(respLog')]
               IN  ctx' = Append(ctx, Entry("assistant", n, FALSE, 0))
                             \o ToolResultsInOrder(n)]_vars

C16_Witness ==
    /\ pc = "chat"
    /\ Len(ctx) > MaxToolCalls
    /\ ctx[Len(ctx) - MaxToolCalls].role = "assistant"
    /\ ctx[Len(ctx) - MaxToolCalls].tool_calls = MaxToolCalls
    /\ ctx[Len(ctx)].call_id = MaxToolCalls

(***************************************************************************)
(* Claims: outbound messages (checked under SpecOutbound) and errors       *)
(* (checked under SpecRun)                                                 *)
(***************************************************************************)
\* Some message of the queue comes from the named producer.
PublishedBy(queue, source) == \E i \in DOMAIN queue : queue[i].source = source

\* run() finishes a turn in this step.
RunTurnEnds == pc = "chat" /\ pc' = "idle" /\ error' = "none" /\ inbound.via = "run"

\* C17: if the message tool sent a message during the turn and the turn's
\* final content is empty, the loop publishes no automatic reply for that
\* turn.
C17_NoAutoReplyAfterToolSend ==
    [][(/\ RunTurnEnds
        /\ PublishedBy(published', "tool")
        /\ reply' = "I've completed processing but have no response to give.")
            => ~PublishedBy(published', "reply")]_vars

\* C18: every OutboundMessage put on the bus's outbound queue (the loop's
\* reply, a send of the message tool, a delivery of the cron dispatcher) has
\* passed through OutboundPolicy first.
C18_AllOutboundThroughPolicy ==
    /\ \A i \in DOMAIN published : published[i].policy
    /\ delivered # NoOutbound => delivered.policy

\* C19: an exception raised while run() processes an inbound message does
\* not end run(): the loop publishes exactly one apology, through the
\* outbound policy, to the channel and chat of that message, and is ready
\* for the next inbound message.
C19_ErrorRepliedLoopGoesOn ==
    [][(error' = "llm" /\ inbound.via = "run")
            => /\ run_loop' = "running"
               /\ pc' = "idle"
               /\ published' = Append(published,
                     redact_outbound(OutboundMessage("apology", inbound.chat, "text", "none")))
               /\ ~PublishedBy(published, "apology")]_vars

C19_Witness ==
    /\ error = "llm"
    /\ run_loop = "running"
    /\ pc = "idle"
    /\ published # <<>>
    /\ published[Len(published)].source = "apology"
    /\ published[Len(published)].chat = "telegram:999"

(***************************************************************************)
(* Claims: MCP connection (checked under SpecMcp)                          *)
(***************************************************************************)
\* C20: if connecting to the MCP servers fails, the failure is logged, not
\* raised out of the loop, and the connection is attempted again when the
\* next message is handled.
C20_McpFailureLoggedAndRetried ==
    [][/\ (mcp'.status = "failed" /\ mcp.status # "failed")
            => (error' # "mcp" /\ run_loop' # "terminated")
       /\ (mcp.status = "failed" /\ pc = "idle" /\ pc' # "idle")
            => mcp'.attempts = mcp.attempts + 1]_vars

(***************************************************************************)
(* Claims: stopping run() (checked under SpecStop)                         *)
(***************************************************************************)
\* C21: once stop() was called on a running loop, run() eventually returns:
\* the message in progress, if any, is finished first, and the loop leaves
\* at its next look at the flag.
C21_StopEndsRun ==
    (run_loop \in {"stopping", "exiting"}) ~> (run_loop = "terminated")

C21_Witness ==
    /\ run_loop = "terminated"
    /\ lastTurn # NoTurn
    /\ published # <<>>
    /\ error = "none"

(***************************************************************************)
(* Claims: tool context (checked under SpecOutbound)                       *)
(***************************************************************************)
\* The step executes the tool calls of an LLM response of the turn.
ExecutesToolCalls ==
    /\ pc = "chat"
    /\ \/ tools_used' > tools_used
       \/ pc' = "idle" /\ lastTurn' # NoTurn /\ lastTurn'.tools_used > tools_used

\* C22: the tool calls a turn executes find the message, spawn and cron
\* tools holding the channel and chat of that turn's message, whatever
\* process_direct turns (cron jobs, heartbeat) ran on the same AgentLoop
\* meanwhile.
C22_ToolCallsUseTurnContext ==
    [][ExecutesToolCalls => tool_context = inbound.chat]_vars

(***************************************************************************)
(* Claims: the todo store (checked under SpecTodo)                         *)
(***************************************************************************)
\* C23: whatever todo actions were called on a store that started empty,
\* every id in an item's depends_on is the id of an item of the store.
C23_DependenciesExist ==
    \A i \in DOMAIN items : items[i].depends_on \subseteq Ids(items)

\* The update of item id with patch, which names items of the store other
\* than id, would close a cycle of dependencies among the items that are
\* not archived.
WouldCreateCycle(its, id, patch) ==
    LET i == FindItem(its, id)
        with_deps == IF "depends_on" \in DOMAIN patch
                     THEN [its[i] EXCEPT !.depends_on = patch.depends_on]
                     ELSE its[i]
        item == IF "status" \in DOMAIN patch
                THEN [with_deps EXCEPT !.status = patch.status]
                ELSE with_deps
    IN  /\ i # 0
        /\ "depends_on" \in DOMAIN patch => patch.depends_on \subseteq Ids(its) \ {id}
        /\ HasCycle([its EXCEPT ![i] = item])

\* The patches of update tried on every state: a list of dependencies or a
\* status.
Patches ==
    {[depends_on |-> depends_on] : depends_on \in IdSets(2)}
        \cup {[status |-> item_status] : item_status \in VALID_STATUSES}

\* C24: the dependencies among the items that are not archived have no
\* cycle, and an update that would create one fails with the cycle error
\* and leaves the store as it was. (An add cannot close a cycle: no item
\* depends on the id it assigns.)
C24_CycleRejected ==
    /\ ~HasCycle(items)
    /\ \A id \in TodoIds, patch \in Patches :
          (todo_file = "ok" /\ WouldCreateCycle(items, id, patch))
              => /\ action_update(Store, "update", id, patch).resp.error = "cycle"
                 /\ action_update(Store, "update", id, patch).store = Store

(***************************************************************************)
(* Claims: the ids of the todo store (checked under SpecTodoIds)           *)
(***************************************************************************)
\* The step is an add that succeeded.
Added == todo_resp'.action = "add" /\ todo_resp'.ok /\ Len(items') = Len(items) + 1

\* The number add must assign: the first after max(last_id, 0) whose id no
\* item has.
FirstFree(n) ==
    /\ n > Max(last_id, 0)
    /\ TodoId(n) \notin Ids(items)
    /\ \A k \in (Max(last_id, 0) + 1)..(n - 1) : TodoId(k) \in Ids(items)

\* C25: add gives the new item the id T{n:04d} of the first number n after
\* max(last_id, 0) that no item has, and sets last_id to n; so no two items
\* have the same id, last_id never decreases, and the number of each new id
\* is greater than last_id was before the add.
C25_IdsFreshAndOrdered ==
    /\ [](\A i, j \in DOMAIN items : items[i].id = items[j].id => i = j)
    /\ [][/\ last_id' >= last_id
          /\ Added => /\ FirstFree(last_id')
                      /\ items'[Len(items')].id = TodoId(last_id')
                      /\ IdNumber(items'[Len(items')].id) > last_id
                      /\ SubSeq(items', 1, Len(items)) = items]_vars

C25_Witness ==
    /\ todo_resp.action = "add" /\ todo_resp.ok
    /\ Len(items) >= 2
    /\ last_id = 3
    /\ items[1].id = TodoId(2)
    /\ items[Len(items)].id = TodoId(3)

\* The items that are not archived, are not among ids and depend on one of
\* ids.
Dependents(ids) ==
    {items[i].id : i \in {j \in DOMAIN items : /\ items[j].status # "archived"
                                               /\ items[j].id \notin ids
                                               /\ items[j].depends_on \cap ids # {}}}

\* The call was refused for its dependents, which it names, and removed
\* nothing.
RefusedFor(result, ids) ==
    /\ ~result.resp.ok
    /\ result.resp.error = "depended_on"
    /\ result.resp.names = Dependents(ids)
    /\ result.store = Store

\* C26: remove and bulk_remove of items of the store fail, naming the
\* dependents, whenever an item that is not archived and not itself being
\* removed depends on one of them; no item is removed then.
C26_RemoveRefusedForDependents ==
    \A ids \in IdSets(2) :
        (todo_file = "ok" /\ ids \subseteq Ids(items) /\ Dependents(ids) # {})
            => /\ RefusedFor(action_bulk_remove(Store, ids), ids)
               /\ \A id \in ids : Dependents({id}) # {}
                                    => RefusedFor(action_remove(Store, id), {id})

C26_Witness ==
    /\ todo_resp.action = "bulk_remove"
    /\ todo_resp.error = "depended_on"
    /\ todo_resp.names = {TodoId(3)}
    /\ Len(items) = 3
    /\ items[1].status = "archived"

(***************************************************************************)
(* Claims: the status of todo items (checked under SpecTodoStatus)         *)
(***************************************************************************)
\* Between the items before and after, only items that were done changed,
\* and they became archived.
OnlyDoneArchived(before, after) ==
    /\ Len(after) = Len(before)
    /\ \A i \in DOMAIN before :
          after[i] # before[i]
              => /\ before[i].status = "done"
                 /\ after[i] = [before[i] EXCEPT !.status = "archived"]

\* C27: archive archives done items only. Called with ids, it fails and
\* archives nothing if one of them is not a done item of the store, and
\* archives all of them otherwise; called with a filter, it changes no item
\* that is not done.
C27_ArchiveOnlyDone ==
    /\ [](todo_file = "ok" =>
            /\ \A ids \in IdSets(2) \ {{}} : \A raised \in ArchiveOutcomes(Store, ids) :
                  LET result == action_archive(Store, ids, {}, raised)
                  IN  IF \A id \in ids : /\ FindItem(items, id) # 0
                                         /\ items[FindItem(items, id)].status = "done"
                      THEN /\ result.resp.ok
                           /\ OnlyDoneArchived(items, result.store.items)
                           /\ \A id \in ids :
                                 result.store.items[FindItem(items, id)].status = "archived"
                      ELSE ~result.resp.ok /\ result.store = Store
            /\ \A filter \in IdSets(2) :
                  LET result == action_archive(Store, {}, filter, "none")
                  IN  result.resp.ok /\ OnlyDoneArchived(items, result.store.items))
    /\ [][todo_resp'.action = "archive" => OnlyDoneArchived(items, items')]_vars

C27_Witness ==
    /\ todo_resp.action = "archive"
    /\ todo_resp.error = "not_done"
    /\ \E i, j \in DOMAIN items : items[i].status = "done" /\ items[j].status = "doing"

\* C28: after any add, update, bulk_update, move or done, every done item
\* has completed_at set and every open item has it empty.
C28_CompletedAtFollowsStatus ==
    \A i \in DOMAIN items :
        /\ items[i].status = "done" => items[i].completed_at
        /\ items[i].status \in OPEN_STATUSES => ~items[i].completed_at

C28_Witness ==
    /\ todo_resp.action = "update" /\ todo_resp.ok
    /\ \E i, j, k \in DOMAIN items :
          /\ items[i].status = "done" /\ items[i].completed_at
          /\ items[j].status = "todo" /\ ~items[j].completed_at
          /\ items[k].status = "archived" /\ items[k].completed_at

(***************************************************************************)
(* Claims: the daily review (checked under SpecTodoReview)                 *)
(***************************************************************************)
\* C29: review_daily called again on the day of the recorded review
\* returns ok, says that the review was already completed, reports the
\* recorded summary as it is and changes neither the recorded date, nor the
\* recorded summary, nor any item; called on another day it computes a
\* summary of the items as they are, records it with the day and returns it.
C29_ReviewOncePerDay ==
    [][(todo_resp'.action = "review_daily" /\ today' = today)
          => /\ todo_resp'.ok
             /\ items' = items
             /\ last_id' = last_id
             /\ IF last_review_date = today
                THEN /\ todo_resp'.already
                     /\ todo_resp'.stats.last_review_summary = last_review_summary
                     /\ todo_resp'.stats.last_review_date = last_review_date
                     /\ last_review_date' = last_review_date
                     /\ last_review_summary' = last_review_summary
                ELSE /\ ~todo_resp'.already
                     /\ last_review_date' = today
                     /\ last_review_summary' = review_summary(Store)
                     /\ last_review_summary'.total = Len(items)
                     /\ last_review_summary'.open =
                           Cardinality({i \in DOMAIN items :
                                           items[i].status \in OPEN_STATUSES})
                     /\ todo_resp'.summary = last_review_summary']_vars

C29_Witness ==
    /\ todo_resp.action = "review_daily"
    /\ todo_resp.already
    /\ today = 2
    /\ last_review_date = 2
    /\ todo_resp.stats.last_review_summary = last_review_summary
    /\ last_review_summary.total # Len(items)

(***************************************************************************)
(* Claims: a damaged todo.md (checked under SpecTodoFile)                  *)
(***************************************************************************)
\* C30: while todo.md exists and its data block does not load, every
\* action but init fails with the error that tells to run init, and init
\* returns ok and leaves a file that loads.
C30_InitRepairsBrokenFile ==
    [][(todo_file = "broken" /\ todo_resp' # todo_resp)
          => IF todo_resp'.action = "init"
             THEN todo_resp'.ok /\ todo_file' = "ok"
             ELSE ~todo_resp'.ok /\ todo_resp'.error = "invalid_file"]_vars

(***************************************************************************)
(* Claims: the cron tool (checked under SpecCron)                          *)
(***************************************************************************)
\* How many of every_seconds, cron_expr, in_seconds and at a call supplies,
\* as _add_job counts them: a number that is not None, a text that is not
\* empty.
SuppliedCount(c) ==
    sum(<<IsGiven(c.every_seconds), Truthy(c.cron_expr), IsGiven(c.in_seconds),
          Truthy(c.at)>>)

\* What _add_job does with the call, as the tool stands.
AddJobNow(c) ==
    add_job(cron_context, add_calls, c.message, c.mode, c.every_seconds, c.cron_expr,
            c.in_seconds, c.at)

\* C31: whatever the tool has done before, a cron add that supplies none or
\* more than one of every_seconds, cron_expr, in_seconds and at returns an
\* error and makes no add_job call, and a cron add that makes an add_job call
\* supplied exactly one of them; add_calls only grows by a call that did not
\* return an error.
C31_ExactlyOneSchedule ==
    /\ [](\A c \in CronCalls :
            /\ SuppliedCount(c) # 1
                 => /\ AddJobNow(c).add_calls = add_calls
                    /\ AddJobNow(c).result \in CronErrors
            /\ AddJobNow(c).add_calls # add_calls
                 => /\ SuppliedCount(c) = 1
                    /\ AddJobNow(c).result \notin CronErrors)
    /\ [][add_calls' # add_calls
            => /\ Len(add_calls') = Len(add_calls) + 1
               /\ cron_result' \notin CronErrors]_vars

C31_Witness ==
    /\ cron_context = [channel |-> "feishu", chat_id |-> "ou_test"]
    /\ cron_result = "Error: reminder/task mode does not allow in_seconds or at"
    /\ Len(add_calls) = 1
    /\ add_calls[1].schedule.kind = "every"

\* The call passes a usable one-shot time and nothing else: in_seconds above
\* zero or an ISO time in the future.
OneShotOnly(c) ==
    /\ SuppliedCount(c) = 1
    /\ \/ IsGiven(c.in_seconds) /\ ValueOf(c.in_seconds) > 0
       \/ Truthy(c.at) /\ fromisoformat(ValueOf(c.at)) = {180000}

\* C32: once the tool has its session context, a cron add in mode reminder
\* or task, with a message, that passes in_seconds or at makes one add_job
\* call with a schedule of kind at and delete_after_run set, the payload kind
\* being system_event for reminder and agent_turn for task.
C32_OneShotInReminderOrTask ==
    \A c \in CronCalls :
        (/\ cron_context.channel # "" /\ cron_context.chat_id # ""
         /\ c.message # ""
         /\ c.mode \in {"reminder", "task"}
         /\ OneShotOnly(c))
        => LET made == AddJobNow(c).add_calls
           IN  /\ Len(made) = Len(add_calls) + 1
               /\ made[Len(made)].schedule.kind = "at"
               /\ made[Len(made)].delete_after_run
               /\ made[Len(made)].payload_kind =
                     IF c.mode = "task" THEN "agent_turn" ELSE "system_event"

(***************************************************************************)
(* Claims: the cron dispatcher (checked under SpecDispatch)                *)
(***************************************************************************)
\* The job's tool_args, None standing for no arguments.
JobArgs == IF dispatched.tool_args = {} THEN {} ELSE ValueOf(dispatched.tool_args)

\* A dispatch of a tool_call job never runs process_direct: no session, MCP
\* connection or tool context is touched.
NoAgentTurn ==
    [][(dispatched' # dispatched /\ dispatched'.kind = "tool_call")
          => /\ dispatched'.turns = 0
             /\ UNCHANGED <<messages, pc, ctx, mcp, tool_context, reply>>]_vars

C34_RedactIdempotent ==
    Len(redact_out) = 2 => redact_out[2] = redact_out[1]

(***************************************************************************)
(* Claims: the sandbox of the merge tool's runs (checked under SpecMerge)  *)
(***************************************************************************)
\* C38: every Codex run of plan_latest and of revise_plan asks for the
\* read-only sandbox (the client reads the request once the working
\* directory passed) and, when a process is started, starts it read-only,
\* with allow_dangerous_full_access on as with it off; a run of the merge
\* tool with danger-full-access in effect is a run of execute_merge.
C38_PlanningIsReadOnly ==
    [][/\ ((IsCall("plan_latest") \/ IsCall("revise_plan")) /\ lastRun'.runs = 1)
            => /\ lastRun'.client = "plan"
               /\ lastRun'.requested =
                     IF lastRun'.code = "invalid_working_dir" THEN "none"
                     ELSE "read-only"
               /\ lastRun'.effective \in {"read-only", "none"}
               /\ lastRun'.spawned => lastRun'.effective = "read-only"
       /\ (call'.action # "none" /\ lastRun'.runs = 1
             /\ lastRun'.effective = "danger-full-access" /\ lastRun' # lastRun)
            => /\ call'.action = "execute_merge"
               /\ config.allow_dangerous_full_access]_vars

C38_Witness ==
    /\ config.allow_dangerous_full_access
    /\ call.action = "revise_plan"
    /\ lastRun.runs = 1
    /\ lastRun.spawned
    /\ lastRun.effective = "read-only"
    /\ resp.ok

(***************************************************************************)
(* Claims: overlapping calls of codex_merge (checked under SpecCalls)      *)
(***************************************************************************)
\* C35: of the execute_merge calls that present the same token, overlapping
\* or not, at most one runs Codex to success.
C35_TokenSingleUse ==
    \A token \in Tokens : executions[token] <= 1

\* C36: the stored revision of a plan never decreases, whatever revise_plan
\* and execute_merge calls overlap on it.
C36_RevisionNeverDecreases ==
    [][\A plan_id \in DOMAIN plans :
          plans'[plan_id].revision >= plans[plan_id].revision]_vars

\* C40: a plan file never holds a partially written record, a crash in the
\* middle of a save included.
C40_PlanFilesNeverPartial ==
    partial = {}

(***************************************************************************)
(* Claims: the retry of a text-only first response (checked under SpecLoop) *)
(***************************************************************************)
\* C37: a turn whose first LLM response was text without tool calls did not
\* end on it: the LLM was called again, and a text-only response to that
\* second call ended the turn as its final content.
C37_TextOnlyRetriedOnce ==
    (lastTurn.responses # <<>> /\ lastTurn.responses[1] = 0)
        => /\ Len(lastTurn.responses) >= 2
           /\ lastTurn.responses[2] = 0
                => Len(lastTurn.responses) = 2 /\ reply = redact_text("text")

(***************************************************************************)
(* Claims: failed todo calls (checked under SpecTodoIds)                   *)
(***************************************************************************)
\* The outcome returned ok=false and left todo.md as it is.
FailedKeepsStore(result) == ~result.resp.ok => result.store = Store

====
